---- MODULE Spec2Model ----
(***************************************************************************)
(* Receipt ingestion pipeline of the kabalot server (src/unnamed/part_002): *)
(* the two FIFO job queues (upload, Gmail), the job runners                 *)
(* processNextTask / processNextGmailTask, the bounded worker pool          *)
(* processFilesConcurrently, the per-file handler with its content-hash     *)
(* cache (getExpenseDataWithCache, rememberCacheEntry) and processFile.     *)
(*                                                                          *)
(* One action is one run-to-completion segment of the Node.js event loop:   *)
(* a request handler, or the continuation that runs when an awaited         *)
(* collaborator call (checksum stream, encryption probe, unlock service,    *)
(* annotator, authorize, workbook write, archive, Gmail download) settles,  *)
(* up to the next await on a collaborator.                                  *)
(***************************************************************************)
EXTENDS Integers, Sequences, FiniteSets, TLC

\* ------------------------------------------------------------------ bounds
\* Submit requests, and files over all jobs, of a run of the scheduler (Spec).
MaxJobs == 3
MaxTotalFiles == 1
\* Files of the one batch, and the two env settings, of a run of the worker
\* pool (BatchSpec).
MaxBatchFiles == 2
MaxW == 2
MaxLimit == 2
\* Distinct checksums offered to the cache in a run of its operations alone
\* (CacheSpec).
MaxKeys == 4

\* Submit requests of a run in which sessions send more than one request
\* (SessionSpec).
MaxSessionJobs == 3
MaxSessionFiles == 1
\* Files of other jobs a Gmail runner finds in its folder.
MaxForeignListed == 1
MaxClients == 2
\* Clients that come back to the stream after leaving it.
MaxReturning == 1
MaxProgressJobs == 2
MaxProgressFiles == 1
\* Parts of a message, and fragments a subject line is made of.
MaxParts == 2
MaxSubjectFragments == 2

\* The defaults of the env settings: parseInt(... || '3'), parseInt(... || '200').
DefaultConcurrency == 3
DefaultCacheLimit == 200
\* The delay every caller passes to scheduleFolderDeletion (one hour).
RetentionMs == 3600000

Jobs == 1..MaxJobs
\* Session ids, numbered in the order the sessions send their first request.
Sessions == 1..MaxJobs
Clients == 1..MaxClients

VARIABLES
  MAX_CONCURRENT_FILE_PROCESSING, \* env setting, fixed at process start
  PROCESSED_FILE_CACHE_LIMIT,     \* env setting, fixed at process start
  SERVICE_ACCOUNT_BASE64,         \* TRUE iff the credentials variable is set
  taskQueue,                      \* upload queue: sequence of job ids
  isProcessing,
  gmailTaskQueue,                 \* Gmail queue: sequence of job ids
  isGmailProcessing,
  processedFileCache,             \* Map in insertion order: Seq of [key, value]
  jobs,                           \* per job: the task and the locals of its runner
  nextJob,                        \* number of submit requests received + 1
  jobsLeft,                       \* submit requests the environment may still send
  filesLeft,                      \* files the environment may still submit
  contentsSeen,                   \* distinct file contents read so far
  annotCalls,                     \* the contents sent to the annotator so far
  sharedSessions,                 \* TRUE iff a session may send several requests
  sessionsSeen,                   \* distinct sessions that sent a request so far
  folders,                        \* INPUT_FOLDER/<sessionId>: exists, items
  timers,                         \* every setTimeout of scheduleFolderDeletion, in order
  timersFired,                    \* how many of them have fired (equal delays: in order)
  progressEmitters,               \* Map sessionId -> emitter (named by its job), 0: none
  streams,                        \* per client: its open progress stream, if any
  mail,                           \* the message downloadGmailAttachments is at
  exchangeRateCache,              \* object in insertion order: Seq of [date, rate]
  parsing,                        \* the parseReceiptWithDocumentAI call being looked at
  excel                           \* the createExpenseExcel call being looked at

vars == <<MAX_CONCURRENT_FILE_PROCESSING, PROCESSED_FILE_CACHE_LIMIT,
          SERVICE_ACCOUNT_BASE64, taskQueue, isProcessing, gmailTaskQueue,
          isGmailProcessing, processedFileCache, jobs, nextJob, jobsLeft,
          filesLeft, contentsSeen, annotCalls, sharedSessions, sessionsSeen,
          folders, timers, timersFired, progressEmitters, streams, mail,
          exchangeRateCache, parsing, excel>>

\* The variables of the scheduler, the streams and the classifier.
pipelineVars ==
  <<MAX_CONCURRENT_FILE_PROCESSING, PROCESSED_FILE_CACHE_LIMIT,
    SERVICE_ACCOUNT_BASE64, taskQueue, isProcessing, gmailTaskQueue,
    isGmailProcessing, processedFileCache, jobs, nextJob, jobsLeft,
    filesLeft, contentsSeen, annotCalls, sharedSessions, sessionsSeen,
    folders, timers, timersFired, progressEmitters, streams, mail>>

\* The variables of the normaliser and of the workbook.
documentVars == <<exchangeRateCache, parsing, excel>>

Min(a, b) == IF a <= b THEN a ELSE b

\* ------------------------------------------------------------ expense data
\* What processFile / getExpenseDataWithCache hand back to the handler.
Null == [kind |-> "null", FileName |-> 0, content |-> 0]
\* `{}`: what parseReceiptWithDocumentAI returns when the request fails.
EmptyObject == [kind |-> "empty", FileName |-> 0, content |-> 0]
\* The normalised record of a successful annotator response; FileName is the
\* basename of the path that was sent.  The files of a batch have distinct
\* basenames, named here by their index; batches of different jobs may use
\* the same basenames.
ExpenseRecord(idx, c) == [kind |-> "record", FileName |-> idx, content |-> c]

\* Mutant: every value counts as truthy.
TruthyAlways(v) == TRUE

\* JavaScript truthiness of the value: only null is falsy, `{}` is truthy.
Truthy(v) == v.kind # "null"

\* ------------------------------------------------------------- Dedup Cache
\* processedFileCache is a JavaScript Map: its keys iterate in insertion order.
CacheKeys(cache) == {cache[i].key : i \in 1..Len(cache)}

CacheHas(cache, key) == key \in CacheKeys(cache)

CacheGet(cache, key) == cache[CHOOSE i \in 1..Len(cache) : cache[i].key = key].value

CacheDelete(cache, key) == SelectSeq(cache, LAMBDA e : e.key # key)

\* Mutant: the size check evicts already at the limit.
EvictAtLimit(cache) ==
  IF Len(cache) >= PROCESSED_FILE_CACHE_LIMIT THEN Tail(cache) ELSE cache

\* rememberCacheEntry, the size check: delete the first key of the Map.
EvictOldest(cache) ==
  IF Len(cache) > PROCESSED_FILE_CACHE_LIMIT THEN Tail(cache) ELSE cache

\* Mutant: the entry is set without the deletion of the key's old entry.
rememberWithoutDelete(cache, key, value) ==
  IF key = 0 \/ ~Truthy(value)
  THEN cache
  ELSE EvictOldest(Append(cache, [key |-> key, value |-> value]))

\* rememberCacheEntry(key, value); a checksum is a non-empty hex string, so
\* `!key` is never true for the keys of the model (key 0 stands for no key).
rememberCacheEntry(cache, key, value) ==
  IF key = 0 \/ ~Truthy(value)
  THEN cache
  ELSE EvictOldest(Append(CacheDelete(cache, key), [key |-> key, value |-> value]))

\* ------------------------------------------------------- working folders
\* userFolder = path.join(INPUT_FOLDER, sessionId): the folder is named by the
\* session.  What a job puts into it is kept as one item per job and sort:
\* its input files, its workbook, its archive.
NoFolder == [exists |-> FALSE, items |-> {}]

Item(j, what) == [by |-> j, what |-> what]

\* fs.ensureDirSync(userFolder)
ensureDirSync(F, folderPath) == [F EXCEPT ![folderPath].exists = TRUE]

\* A file is written into the folder.
WriteItem(F, folderPath, item) == [F EXCEPT ![folderPath].items = @ \cup {item}]

\* fs.remove(folderPath): the folder and everything in it.
RemoveFolder(F, folderPath) == [F EXCEPT ![folderPath] = NoFolder]

\* Mutant: nothing is scheduled.
scheduleNothing(T, folderPath, delayMs, by) == T

\* scheduleFolderDeletion(folderPath, delayMs): one more pending timer; `by`
\* names the job whose runner made the call.
scheduleFolderDeletion(T, folderPath, delayMs, by) ==
  Append(T, [folderPath |-> folderPath, delayMs |-> delayMs, by |-> by])

\* ------------------------------------------------------------- job records
NoSnapshot == [kind |-> "none", message |-> "", queuePosition |-> 0]
Snapshot(kind) == [kind |-> kind, message |-> "", queuePosition |-> 0]
\* The catch block's snapshot: the status line carries error.message.
FailedSnapshot(message) == [kind |-> "failed", message |-> message, queuePosition |-> 0]
\* The submit handlers' snapshot for a task that has to wait.
QueuedSnapshot(queuePosition) ==
  [kind |-> "queued", message |-> "", queuePosition |-> queuePosition]

NewJob ==
  [kind |-> "none", files |-> 0, pc |-> "none", progressData |-> <<>>,
   expenses |-> <<>>, cursor |-> 0, workers |-> <<>>, snapshot |-> NoSnapshot,
   handlerCalls |-> <<>>, fileLog |-> <<>>, raised |-> "none", joined |-> FALSE,
   worksheet |-> <<>>, sessionId |-> 0, inputs |-> 0, listed |-> {},
   emitted |-> 0]

\* What the model records about one file of the running batch.  While its
\* handler runs: the bytes read (content), how the cache lookup went (lookup:
\* hit, miss, or nohash when the checksum failed) and whether processFile took
\* the PDF branch.  Once the handler is over: how it ended (result: hit, or the
\* kind of value processFile returned, or threw).
NewLog == [content |-> 0, lookup |-> "none", pdf |-> FALSE, result |-> "none"]

Ended(log, result) == [content |-> log.content, lookup |-> "none", pdf |-> FALSE, result |-> result]

\* progressEmitter.emit('progress', ...): the emitter of the task has
\* published one more snapshot.
Emit(r) == [r EXCEPT !.emitted = @ + 1]

\* Mutant: the runner returns without a last snapshot.
FinishUnpublished(r, snap) ==
  [r EXCEPT !.pc = "done", !.progressData = <<>>,
            !.expenses = <<>>, !.workers = <<>>, !.fileLog = <<>>, !.cursor = 0,
            !.worksheet = <<>>, !.listed = {}]

\* The runner returns: its locals (progressData, expenses, the workers) are
\* dropped, the last published snapshot stays with the client.
Finish(r, snap) ==
  [Emit(r) EXCEPT !.pc = "done", !.snapshot = snap, !.progressData = <<>>,
            !.expenses = <<>>, !.workers = <<>>, !.fileLog = <<>>, !.cursor = 0,
            !.worksheet = <<>>, !.listed = {}]

\* An error with this message is thrown inside the runner's try block.
Throw(r, message) == [r EXCEPT !.raised = message, !.pc = "thrown"]

\* Mutant: the catch block lets the error go.
CatchNothing(r) == r

\* catch (processingError): publish the failed snapshot with error.message;
\* the runner then falls through to its finally block.
Catch(r) == Finish(r, FailedSnapshot(r.raised))

Fail(r, message) == Catch(Throw(r, message))

\* const progressData = files.map(... status: 'Pending' ...); emitProgress()
WithFiles(r, n) ==
  [Emit(r) EXCEPT !.files = n,
            !.progressData = [i \in 1..n |-> "Pending"],
            !.handlerCalls = [i \in 1..n |-> 0],
            !.fileLog = [i \in 1..n |-> NewLog],
            !.snapshot = Snapshot("files")]

\* ------------------------------------------------- processFilesConcurrently
\* Mutant: one worker per file, whatever the setting.
ConcurrencyPerFile(n) == n

\* Mutant: one worker whatever the configuration.
ConcurrencySerial(n) == Min(1, n)

\* const concurrency = Math.min(MAX_CONCURRENT_FILE_PROCESSING, files.length)
Concurrency(n) == Min(MAX_CONCURRENT_FILE_PROCESSING, n)

\* Mutant: the cursor advances by two.
NextCursorSkips(cursor) == cursor + 2

\* cursor += 1
NextCursor(cursor) == cursor + 1

InFlightPcs == {"hash", "probe", "unlock", "annot"}

\* One turn of a worker's while loop up to the handler's first await: leave
\* the loop when the cursor is exhausted, otherwise claim files[cursor], and
\* run the handler's head (status Processing, emitProgress, start checksum).
WorkerTake(r, k) ==
  IF r.cursor >= r.files
  THEN [r EXCEPT !.workers[k] = [idx |-> 0, pc |-> "exit"]]
  ELSE LET idx == r.cursor IN
       [Emit(r) EXCEPT !.cursor = NextCursor(idx),
                 !.workers[k] = [idx |-> idx, pc |-> "hash"],
                 !.progressData[idx + 1] = "Processing",
                 !.handlerCalls[idx + 1] = @ + 1,
                 !.fileLog[idx + 1] = NewLog]

RECURSIVE Spawn(_, _)
Spawn(r, k) ==
  IF k > Len(r.workers) THEN r ELSE Spawn(WorkerTake(r, k), k + 1)

\* The amount createExpenseExcel reads from an expense: parseFloat(TotalPrice)
\* when the field is there, otherwise 0.  The amount printed on a receipt is
\* given by its content; `{}` has no field.
Amount(expense) == IF expense.kind = "record" THEN expense.content ELSE 0

RECURSIVE SumAmounts(_)
SumAmounts(expenses) ==
  IF Len(expenses) = 0 THEN 0
  ELSE Amount(Head(expenses)) + SumAmounts(Tail(expenses))

\* createExpenseExcel up to its await: one row per expense in the order of the
\* list, then the totals row.
createExpenseExcel(expenses) ==
  <<[rows |-> expenses, totalPrice |-> SumAmounts(expenses)]>>

\* The code after `await processFilesConcurrently(...)` up to the next await.
AfterBatch(r) ==
  LET r1 == [r EXCEPT !.joined = TRUE]
      r2 == [r1 EXCEPT !.pc = "excel", !.worksheet = createExpenseExcel(r.expenses)]
  IN IF r.kind = "upload"
     THEN IF Len(r.expenses) > 0
          THEN r2
          ELSE Finish(r1, Snapshot("noExpenses"))
     ELSE [Emit(r2) EXCEPT !.snapshot = Snapshot("status")]

\* await Promise.all(workers)
Join(r) ==
  IF \A k \in 1..Len(r.workers) : r.workers[k].pc = "exit"
  THEN AfterBatch(r)
  ELSE r

\* processFilesConcurrently up to its await: the workers are created in order
\* and each runs synchronously until its handler's first await.
StartBatch(r) ==
  LET n == Concurrency(r.files)
      r0 == [r EXCEPT !.pc = "batch",
                      !.workers = [k \in 1..n |-> [idx |-> 0, pc |-> "new"]]]
  IN Join(Spawn(r0, 1))

\* The handler's tail after `await getExpenseDataWithCache(...)`, then the
\* worker's next loop turn.
HandlerReturn(r, k, data) ==
  LET idx == r.workers[k].idx
      log == r.fileLog[idx + 1]
      end == Ended(log, IF log.lookup = "hit" THEN "hit" ELSE data.kind)
      r1 == IF Truthy(data)
            THEN [r EXCEPT !.expenses = Append(@, data),
                           !.progressData[idx + 1] = "Completed",
                           !.fileLog[idx + 1] = end]
            ELSE [r EXCEPT !.progressData[idx + 1] = "Failed",
                           !.fileLog[idx + 1] = end]
  IN Join(WorkerTake(Emit(r1), k))

\* The worker's catch: console.error only, then the next loop turn.
HandlerThrow(r, k) ==
  LET idx == r.workers[k].idx IN
  Join(WorkerTake([r EXCEPT !.fileLog[idx + 1] = Ended(@, "threw")], k))

InFlight(r) ==
  Cardinality({k \in 1..Len(r.workers) : r.workers[k].pc \in InFlightPcs})

\* ------------------------------------------- getExpenseDataWithCache steps
\* Whether the lookup answers from the cache: the checksum was computed and
\* processedFileCache.has(checksum).
\* Mutant: the lookup result is ignored.
UseCacheNever(ok, hit) == FALSE

UseCache(ok, hit) == ok /\ hit

\* parseReceiptWithDocumentAI is entered for worker k's file (content c).
AnnotStart(r, k) == [r EXCEPT !.workers[k].pc = "annot"]

\* processFile is entered: a PDF is probed for encryption first, any other
\* file goes straight to the annotator.
ProcessFileStart(r, k, pdf) ==
  IF pdf
  THEN [r EXCEPT !.workers[k].pc = "probe", !.fileLog[r.workers[k].idx + 1].pdf = TRUE]
  ELSE AnnotStart(r, k)

\* ------------------------------------------------ the attachment classifier
\* Strings are sequences of characters; a Hebrew letter is written by its name.
UpperCase ==
  <<"A", "B", "C", "D", "E", "F", "G", "H", "I", "J", "K", "L", "M",
    "N", "O", "P", "Q", "R", "S", "T", "U", "V", "W", "X", "Y", "Z">>
LowerCase ==
  <<"a", "b", "c", "d", "e", "f", "g", "h", "i", "j", "k", "l", "m",
    "n", "o", "p", "q", "r", "s", "t", "u", "v", "w", "x", "y", "z">>

\* String.prototype.toLowerCase
toLowerCase(str) ==
  [i \in 1..Len(str) |->
     IF \E n \in 1..Len(UpperCase) : UpperCase[n] = str[i]
     THEN LowerCase[CHOOSE n \in 1..Len(UpperCase) : UpperCase[n] = str[i]]
     ELSE str[i]]

\* String.prototype.includes
includes(str, sub) ==
  \E i \in 0..(Len(str) - Len(sub)) : SubSeq(str, i + 1, i + Len(sub)) = sub

\* String.prototype.endsWith
endsWith(str, suffix) ==
  /\ Len(suffix) <= Len(str)
  /\ SubSeq(str, Len(str) - Len(suffix) + 1, Len(str)) = suffix

RECURSIVE trimStart(_)
trimStart(str) ==
  IF Len(str) > 0 /\ Head(str) = " " THEN trimStart(Tail(str)) ELSE str

RECURSIVE trimEnd(_)
trimEnd(str) ==
  IF Len(str) > 0 /\ str[Len(str)] = " "
  THEN trimEnd(SubSeq(str, 1, Len(str) - 1))
  ELSE str

\* String.prototype.trim
trim(str) == trimEnd(trimStart(str))

\* The positions of character ch in str from position from on.
Positions(str, ch, from) == {i \in from..Len(str) : str[i] = ch}

Least(S) == CHOOSE i \in S : \A k \in S : i <= k

\* sender.split('<')[0].trim()
senderName(sender) ==
  LET lt == Positions(sender, "<", 1) IN
  trim(IF lt = {} THEN sender ELSE SubSeq(sender, 1, Least(lt) - 1))

\* sender.match(/<(.+?)>/): the leftmost `<` that has a `>` at least two
\* places on, and the shortest text between them; without a match the whole
\* sender.
senderEmail(sender) ==
  LET lt == {p \in Positions(sender, "<", 1) : Positions(sender, ">", p + 2) # {}} IN
  IF lt = {} THEN sender
  ELSE SubSeq(sender, Least(lt) + 1, Least(Positions(sender, ">", Least(lt) + 2)) - 1)

\* The words of the keyword lists.
Qabala == <<"qof", "bet", "lamed", "he">>
Heshbonit == <<"het", "shin", "bet", "vav", "nun", "yod", "tav">>
HeshbonitMas == Heshbonit \o <<" ", "mem", "samekh">>
HaQabala == <<"he">> \o Qabala
HaHeshbonit == <<"he">> \o Heshbonit
HaHeshbonitHaHodshit ==
  HaHeshbonit \o <<" ", "he", "het", "vav", "dalet", "shin", "yod", "tav">>
IshurTashlum ==
  <<"alef", "yod", "shin", "vav", "resh", " ", "tav", "shin", "lamed", "vav", "final mem">>
Receipt == <<"r", "e", "c", "e", "i", "p", "t">>
Invoice == <<"i", "n", "v", "o", "i", "c", "e">>
HeshbonHodshi ==
  <<"het", "shin", "bet", "vav", "final nun", " ", "het", "vav", "dalet", "shin", "yod">>
HevratHashmalLeIsrael ==
  <<"het", "bet", "resh", "tav", " ", "het", "shin", "mem", "lamed", " ",
    "lamed", "yod", "shin", "resh", "alef", "lamed">>
Iriyat == <<"ayin", "yod", "resh", "yod", "yod", "tav">>
AvivYafo == <<"alef", "bet", "yod", "bet", "-", "yod", "pe", "vav">>
IriyatTelAvivYafo == Iriyat \o <<" ", "tav", "lamed", " ">> \o AvivYafo
Arnona == <<"alef", "resh", "nun", "vav", "nun", "he">>
ArnonaIriyatTelAvivYafo ==
  Arnona \o <<" ", "-", " ">> \o Iriyat \o <<" ", "tav", "lamed", "-">> \o AvivYafo

positiveSubjectKeywords ==
  <<Qabala, Heshbonit, HeshbonitMas, HaQabala, HaHeshbonit, HaHeshbonitHaHodshit,
    IshurTashlum, Receipt, Invoice, HeshbonHodshi>>
excludedSenders == <<HevratHashmalLeIsrael, IriyatTelAvivYafo, ArnonaIriyatTelAvivYafo>>
senderExceptionKeywords == <<Qabala, Heshbonit, HeshbonitMas, HaQabala>>
attachmentKeywords == <<Receipt, Heshbonit>>

\* for (const keyword of keywords) if (str.includes(keyword.toLowerCase())) ...
IncludesKeyword(str, keywords) ==
  \E n \in 1..Len(keywords) : includes(str, toLowerCase(keywords[n]))

isExcludedSender(sender) ==
  \E n \in 1..Len(excludedSenders) :
    \/ includes(senderName(sender), excludedSenders[n])
    \/ includes(senderEmail(sender), excludedSenders[n])

containsExceptionKeyword(subject) ==
  IncludesKeyword(toLowerCase(subject), senderExceptionKeywords)

\* Mutant: every message of an excluded sender is skipped.
SkipExcludedAlways(msg) == isExcludedSender(msg.sender)

\* if (isExcludedSender) { ... if (!containsExceptionKeyword) continue; }
SkipMessage(msg) ==
  isExcludedSender(msg.sender) /\ ~containsExceptionKeyword(msg.subject)

subjectMatchesPositiveKeywords(subject) ==
  IncludesKeyword(toLowerCase(subject), positiveSubjectKeywords)

\* if (part.filename && part.filename.length > 0)
HasFilename(part) == Len(part.filename) > 0

attachmentMatchesKeyword(fileName) ==
  IncludesKeyword(toLowerCase(fileName), attachmentKeywords)

\* The first loop over the parts: does any file name hold a keyword.
receiptFoundInThread(parts) ==
  \E i \in 1..Len(parts) :
    HasFilename(parts[i]) /\ attachmentMatchesKeyword(parts[i].filename)

Pdf == <<"p", "d", "f">>
ApplicationSlash == <<"a", "p", "p", "l", "i", "c", "a", "t", "i", "o", "n", "/">>
TextSlash == <<"t", "e", "x", "t", "/">>
PdfContentTypes ==
  {ApplicationSlash \o Pdf, ApplicationSlash \o <<"x", "-">> \o Pdf,
   ApplicationSlash \o <<"a", "c", "r", "o", "b", "a", "t">>,
   <<"a", "p", "p", "l", "i", "c", "a", "t", "i", "o", "n", "s", "/", "v", "n", "d", ".">> \o Pdf,
   TextSlash \o Pdf, TextSlash \o <<"x", "-">> \o Pdf}

isPdfFile(contentType, fileName) ==
  \/ toLowerCase(contentType) \in PdfContentTypes
  \/ includes(toLowerCase(contentType), Pdf)
  \/ endsWith(toLowerCase(fileName), <<".">> \o Pdf)

\* Mutant: with a matching subject every PDF is fetched, whatever the file
\* names of the message.
SavesPartIgnoringThread(msg, part) ==
  /\ HasFilename(part)
  /\ part.attachmentId # ""
  /\ isPdfFile(part.mimeType, part.filename)
  /\ IF subjectMatchesPositiveKeywords(msg.subject)
     THEN TRUE
     ELSE attachmentMatchesKeyword(part.filename)

\* The second loop's decision for one part: does it reach
\* attachments.get and fs.writeFileSync.
SavesPart(msg, part) ==
  /\ HasFilename(part)
  /\ part.attachmentId # ""
  /\ isPdfFile(part.mimeType, part.filename)
  /\ IF subjectMatchesPositiveKeywords(msg.subject)
     THEN IF receiptFoundInThread(msg.parts)
          THEN attachmentMatchesKeyword(part.filename)
          ELSE TRUE
     ELSE attachmentMatchesKeyword(part.filename)

\* The second loop from part i on, up to its next await: the index of the
\* next part that is fetched, 0 when the loop ends.
NextFetch(msg, i) ==
  LET S == {k \in (i + 1)..Len(msg.parts) : SavesPart(msg, msg.parts[k])} IN
  IF S = {} THEN 0 ELSE Least(S)

\* No message is being looked at.
NoMail ==
  [sender |-> <<>>, subject |-> <<>>, parts |-> <<>>, pc |-> "none", i |-> 0,
   written |-> <<>>, skipped |-> FALSE]

\* ------------------------------------------------------------ the normaliser
\* String.prototype.toUpperCase
toUpperCase(str) ==
  [i \in 1..Len(str) |->
     IF \E n \in 1..Len(LowerCase) : LowerCase[n] = str[i]
     THEN UpperCase[CHOOSE n \in 1..Len(LowerCase) : LowerCase[n] = str[i]]
     ELSE str[i]]

\* A field of a record or a cell of the worksheet: '' (or undefined), or a
\* number.  Amounts are counted in thousandths.
Blank == [blank |-> TRUE, n |-> 0]
Num(n) == [blank |-> FALSE, n |-> n]

\* const usdRegex = /\$|USD|DOLLAR|<dolar>/; const ilsRegex = /<sheqel sign>|ILS|NIS|<sh"h>/
usdRegex ==
  <<<<"$">>, <<"U", "S", "D">>, <<"D", "O", "L", "L", "A", "R">>,
    <<"dalet", "vav", "lamed", "resh">>>>
ilsRegex ==
  <<<<"sheqel sign">>, <<"I", "L", "S">>, <<"N", "I", "S">>, <<"shin", "het">>,
    <<"shin", "gershayim", "het">>>>

\* RegExp.prototype.test for an alternation of literals
test(regex, str) == \E n \in 1..Len(regex) : includes(str, regex[n])

detectCurrency(value, preferredLanguage) ==
  LET byLanguage == IF preferredLanguage = "iw" THEN "ILS" ELSE "USD" IN
  IF value = <<>> THEN byLanguage
  ELSE IF test(usdRegex, toUpperCase(value)) THEN "USD"
  ELSE IF test(ilsRegex, toUpperCase(value)) THEN "ILS"
  ELSE byLanguage

\* getPrimaryLanguage: the code of the first detected language, 'en' when
\* none was detected.
getPrimaryLanguage(detectedLanguages) ==
  IF Len(detectedLanguages) = 0 THEN "en" ELSE Head(detectedLanguages)

Digits == <<"0", "1", "2", "3", "4", "5", "6", "7", "8", "9">>
IsDigit(ch) == \E n \in 1..Len(Digits) : Digits[n] = ch
DigitValue(ch) == (CHOOSE n \in 1..Len(Digits) : Digits[n] = ch) - 1

\* The longest prefix of str made of digits.
RECURSIVE DigitPrefix(_)
DigitPrefix(str) ==
  IF Len(str) > 0 /\ IsDigit(Head(str))
  THEN <<Head(str)>> \o DigitPrefix(Tail(str))
  ELSE <<>>

RECURSIVE NatOf(_)
NatOf(digits) ==
  IF Len(digits) = 0 THEN 0
  ELSE 10 * NatOf(SubSeq(digits, 1, Len(digits) - 1)) + DigitValue(digits[Len(digits)])

NaN == [nan |-> TRUE, n |-> 0]

\* parseFloat of a text without blanks and exponent: an optional minus sign,
\* digits, an optional point and digits; NaN when there is no digit.  The
\* value is given in thousandths.
parseFloat(str) ==
  LET neg == Len(str) > 0 /\ Head(str) = "-"
      body == IF neg THEN Tail(str) ELSE str
      int == DigitPrefix(body)
      rest == SubSeq(body, Len(int) + 1, Len(body))
      frac == IF Len(rest) > 0 /\ Head(rest) = "." THEN DigitPrefix(Tail(rest)) ELSE <<>>
      mills == NatOf(SubSeq(frac \o <<"0", "0", "0">>, 1, 3))
      abs == 1000 * NatOf(int) + mills
  IN IF Len(int) = 0 /\ Len(frac) = 0 THEN NaN
     ELSE [nan |-> FALSE, n |-> IF neg THEN 0 - abs ELSE abs]

\* The characters /[^0-9.\-]+/g leaves in place.
KeptInAmount(ch) == IsDigit(ch) \/ ch = "." \/ ch = "-"

cleanAndParseAmount(amountStr) ==
  IF amountStr = <<>> THEN 0
  ELSE LET parsedAmount == parseFloat(SelectSeq(amountStr, KeptInAmount)) IN
       IF parsedAmount.nan THEN 0 ELSE parsedAmount.n

\* The mock rate 3.5, written in tenths.
MockRateTenths == 35
getUsdToIlsExchangeRate(date) == MockRateTenths
\* amount * exchangeRate
TimesRate(n, exchangeRate) == (n * exchangeRate) \div 10

\* A date text is a sequence of tokens: numerals, month names, separators.
Numerals ==
  ("04" :> 4) @@ ("10" :> 10) @@ ("13" :> 13) @@ ("31" :> 31) @@ ("2024" :> 2024)
MonthNames == ("October" :> 10)
ShortMonthNames == ("Oct" :> 10)

dateFormats ==
  <<<<"yyyy", "-", "MM", "-", "dd">>, <<"MM", "/", "dd", "/", "yyyy">>,
    <<"dd", "/", "MM", "/", "yyyy">>, <<"dd", "-", "MM", "-", "yyyy">>,
    <<"MM", "-", "dd", "-", "yyyy">>, <<"yyyy", "/", "MM", "/", "dd">>,
    <<"dd", ".", "MM", ".", "yyyy">>, <<"yyyy", ".", "MM", ".", "dd">>,
    <<"MMMM", " ", "dd", ",", " ", "yyyy">>, <<"MMM", " ", "dd", ",", " ", "yyyy">>>>

InvalidDate == [valid |-> FALSE, y |-> 0, m |-> 0, d |-> 0]

IsLeapYear(y) == (y % 4 = 0 /\ y % 100 # 0) \/ y % 400 = 0
DaysInMonth(y, m) ==
  IF m = 2 THEN (IF IsLeapYear(y) THEN 29 ELSE 28)
  ELSE IF m \in {4, 6, 9, 11} THEN 30 ELSE 31

\* Does the token of the text fit the token of the format.
TokenFits(token, pattern) ==
  IF pattern \in {"yyyy", "MM", "dd"} THEN token \in DOMAIN Numerals
  ELSE IF pattern = "MMMM" THEN token \in DOMAIN MonthNames
  ELSE IF pattern = "MMM" THEN token \in DOMAIN ShortMonthNames
  ELSE token = pattern

\* The number the text gives for a field of the format.
FieldOf(text, dateFormat, names) ==
  LET i == CHOOSE k \in 1..Len(dateFormat) : dateFormat[k] \in names IN
  IF dateFormat[i] = "MMMM" THEN MonthNames[text[i]]
  ELSE IF dateFormat[i] = "MMM" THEN ShortMonthNames[text[i]]
  ELSE Numerals[text[i]]

\* date-fns parse(text, dateFormat, new Date()): Invalid Date unless the text
\* has the shape of the format and names a day of the calendar.
parse(text, dateFormat) ==
  IF Len(text) # Len(dateFormat) THEN InvalidDate
  ELSE IF \E k \in 1..Len(text) : ~TokenFits(text[k], dateFormat[k]) THEN InvalidDate
  ELSE LET y == FieldOf(text, dateFormat, {"yyyy"})
           m == FieldOf(text, dateFormat, {"MM", "MMM", "MMMM"})
           d == FieldOf(text, dateFormat, {"dd"})
       IN IF m \in 1..12 /\ d \in 1..DaysInMonth(y, m)
          THEN [valid |-> TRUE, y |-> y, m |-> m, d |-> d]
          ELSE InvalidDate

\* format(date, 'yyyy-MM-dd'): year, month, day.
formatDate(date) == <<date.y, date.m, date.d>>

\* for (const dateFormat of dateFormats) { parsedDate = parse(...); if
\* (!isNaN(parsedDate)) break; }: the first format that parses, from format
\* number k on; an Invalid Date when none does.
RECURSIVE FirstParse(_, _, _)
FirstParse(text, formats, k) ==
  IF k > Len(formats) THEN InvalidDate
  ELSE IF parse(text, formats[k]).valid THEN parse(text, formats[k])
  ELSE FirstParse(text, formats, k + 1)

\* Mutant: the day-first format with slashes is tried before the month-first.
NormalizeDateDayFirst(invoiceDate, now) ==
  LET swapped == [k \in 1..Len(dateFormats) |->
                    IF k = 2 THEN dateFormats[3]
                    ELSE IF k = 3 THEN dateFormats[2] ELSE dateFormats[k]]
      parsedDate == FirstParse(invoiceDate, swapped, 1)
  IN IF invoiceDate = <<>> \/ ~parsedDate.valid
     THEN formatDate(now)
     ELSE formatDate(parsedDate)

\* The invoice date of the record: today when no Date entity gave a text or
\* no format parses it, otherwise the parsed date; always as yyyy-MM-dd.
NormalizeDate(invoiceDate, now) ==
  LET parsedDate == FirstParse(invoiceDate, dateFormats, 1) IN
  IF invoiceDate = <<>> \/ ~parsedDate.valid
  THEN formatDate(now)
  ELSE formatDate(parsedDate)

\* An entity of the annotator's response.
NoMoneyValue == [present |-> FALSE, amount |-> <<>>, currencyCode |-> ""]
Entity(type, mentionText) ==
  [type |-> type, mentionText |-> mentionText, moneyValue |-> NoMoneyValue]
MoneyEntity(type, amount, currencyCode) ==
  [type |-> type, mentionText |-> <<>>,
   moneyValue |-> [present |-> TRUE, amount |-> amount, currencyCode |-> currencyCode]]

\* value and currencyCode as both loops over the entities compute them.
ValueOf(entity) ==
  IF entity.moneyValue.present THEN entity.moneyValue.amount ELSE entity.mentionText
CurrencyCodeOf(entity, primaryLanguage) ==
  IF entity.moneyValue.present THEN entity.moneyValue.currencyCode
  ELSE detectCurrency(entity.mentionText, primaryLanguage)

\* The first loop from entity k on: hasUSD, invoiceDate, with its break.
RECURSIVE ScanEntities(_, _, _, _)
ScanEntities(entities, primaryLanguage, k, found) ==
  IF k > Len(entities) THEN found
  ELSE LET entity == entities[k]
           hasUSD == found.hasUSD \/ CurrencyCodeOf(entity, primaryLanguage) = "USD"
           invoiceDate == IF entity.type = "Date" /\ found.invoiceDate = <<>>
                          THEN ValueOf(entity) ELSE found.invoiceDate
           next == [hasUSD |-> hasUSD, invoiceDate |-> invoiceDate]
       IN IF hasUSD /\ invoiceDate # <<>> THEN next
          ELSE ScanEntities(entities, primaryLanguage, k + 1, next)

\* const result = { FileName, BusinessName: '', ..., Currency: '', ... }
NewResult(primaryLanguage) ==
  [empty |-> FALSE, BusinessName |-> <<>>, Date |-> <<0, 0, 0>>,
   OriginalTotalUSD |-> Blank, PriceWithoutVat |-> Blank, VAT |-> Blank,
   TotalPrice |-> Blank, Currency |-> "", Language |-> primaryLanguage]

\* `{}`, returned when the request or anything after it fails.
EmptyResult == [NewResult("") EXCEPT !.empty = TRUE]

\* One turn of the second loop: the switch on entity.type.
ApplyEntity(acc, entity, hasUSD, exchangeRate) ==
  LET value == ValueOf(entity)
      amount == cleanAndParseAmount(value)
  IN IF entity.type = "Business-Name"
     THEN [acc EXCEPT !.result.BusinessName = value]
     ELSE IF entity.type = "Price-Without-Vat"
     THEN IF hasUSD
          THEN [acc EXCEPT !.originalUSD = @ + amount,
                           !.result.PriceWithoutVat = Num(TimesRate(amount, exchangeRate))]
          ELSE [acc EXCEPT !.result.PriceWithoutVat = Num(amount)]
     ELSE IF entity.type = "VAT"
     THEN [acc EXCEPT !.result.VAT = Num(IF hasUSD THEN TimesRate(amount, exchangeRate) ELSE amount)]
     ELSE IF entity.type = "Total-Price"
     THEN IF hasUSD
          THEN [acc EXCEPT !.convertedTotalPrice = TimesRate(amount, exchangeRate)]
          ELSE [acc EXCEPT !.result.TotalPrice = Num(amount)]
     ELSE acc

RECURSIVE ApplyEntities(_, _, _, _, _)
ApplyEntities(acc, entities, k, hasUSD, exchangeRate) ==
  IF k > Len(entities) THEN acc
  ELSE ApplyEntities(ApplyEntity(acc, entities[k], hasUSD, exchangeRate), entities, k + 1,
                     hasUSD, exchangeRate)

\* The second loop and the lines after it: the record that is returned.
BuildResult(result, entities, hasUSD, exchangeRate) ==
  LET acc == ApplyEntities([result |-> result, originalUSD |-> 0,
                            convertedTotalPrice |-> 0], entities, 1, hasUSD,
                           exchangeRate)
  IN IF hasUSD
     THEN [acc.result EXCEPT !.OriginalTotalUSD = Num(acc.originalUSD),
                             !.Currency = "ILS",
                             !.TotalPrice = Num(acc.convertedTotalPrice)]
     ELSE [acc.result EXCEPT !.Currency = "ILS"]

\* exchangeRateCache[invoiceDate], 0 when there is no such property.
CachedRate(cache, invoiceDate) ==
  LET found == {n \in 1..Len(cache) : cache[n].date = invoiceDate} IN
  IF found = {} THEN 0 ELSE cache[CHOOSE n \in found : TRUE].rate

\* exchangeRateCache[invoiceDate] = exchangeRate
StoreRate(cache, invoiceDate, rate) ==
  IF CachedRate(cache, invoiceDate) # 0
  THEN [n \in 1..Len(cache) |->
          IF cache[n].date = invoiceDate THEN [cache[n] EXCEPT !.rate = rate] ELSE cache[n]]
  ELSE Append(cache, [date |-> invoiceDate, rate |-> rate])

\* No call of parseReceiptWithDocumentAI is being looked at.
NoParsing ==
  [pc |-> "none", entities |-> <<>>, detectedLanguages |-> <<>>, now |-> InvalidDate,
   hasUSD |-> FALSE, invoiceDate |-> <<0, 0, 0>>, rateCalls |-> 0,
   result |-> EmptyResult]

\* No call of createExpenseExcel is being looked at.
NoExcel == [pc |-> "none", expenses |-> <<>>, worksheet |-> <<>>]

NoDocument ==
  /\ exchangeRateCache = <<>>
  /\ parsing = NoParsing
  /\ excel = NoExcel

\* ------------------------------------------------------------ the runners
\* processNextTask from `isProcessing = true` to its first await, for the
\* task r0 just shifted from the queue: the 'started' snapshot comes first.
StartUpload(r0) ==
  LET r == Emit(r0) IN
  IF r.files = 0
  THEN Finish(r, Snapshot("noFiles"))
  ELSE IF ~SERVICE_ACCOUNT_BASE64
       THEN Fail(WithFiles(r, r.files), "SERVICE_ACCOUNT_BASE64 is not set.")
       ELSE [WithFiles(r, r.files) EXCEPT !.pc = "authorize"]

\* processNextGmailTask from `isGmailProcessing = true` to its first await:
\* two status snapshots (started, downloading from Gmail).
StartGmail(r) ==
  [Emit(Emit(r)) EXCEPT !.pc = "download", !.snapshot = Snapshot("status")]

\* Mutant: the runner takes the newest task (pop).
ShiftNewest(q) == [task |-> q[Len(q)], rest |-> SubSeq(q, 1, Len(q) - 1)]

\* taskQueue.shift()
Shift(q) == [task |-> Head(q), rest |-> Tail(q)]

\* processNextTask(): with an empty queue clear the flag; otherwise set it,
\* shift the head and run it to its first await.  A task that ends before any
\* await (no files, credentials missing) runs its finally block in the same
\* segment, which clears the flag and calls processNextTask() again.
\* The state is threaded as st = [R: the jobs, T: the timers, E: the emitter
\* registry].
RECURSIVE processNextTask(_, _)
RECURSIVE FinallyUpload(_, _, _)
processNextTask(q, st) ==
  IF Len(q) = 0
  THEN [queue |-> q, flag |-> FALSE, st |-> st]
  ELSE LET s == Shift(q)
           r == StartUpload(st.R[s.task])
           st1 == [st EXCEPT !.R[s.task] = r]
       IN IF r.pc = "done"
          THEN FinallyUpload(s.task, s.rest, st1)
          ELSE [queue |-> s.rest, flag |-> TRUE, st |-> st1]

\* processNextGmailTask(): its first await (the Gmail download) is reached on
\* every path, so the started task never ends in the same segment.
processNextGmailTask(q, st) ==
  IF Len(q) = 0
  THEN [queue |-> q, flag |-> FALSE, st |-> st]
  ELSE LET s == Shift(q) IN
       [queue |-> s.rest, flag |-> TRUE,
        st |-> [st EXCEPT !.R[s.task] = StartGmail(st.R[s.task])]]

\* progressEmitters.delete(sessionId)
RegistryDelete(E, sessionId) == [E EXCEPT ![sessionId] = 0]

\* The head of a runner's finally block, for the task of job j:
\* scheduleFolderDeletion(userFolder, 3600000); progressEmitters.delete(sessionId).
FinallyHead(j, st) ==
  [st EXCEPT !.T = scheduleFolderDeletion(@, st.R[j].sessionId, RetentionMs, j),
             !.E = RegistryDelete(@, st.R[j].sessionId)]

\* Mutant: the finally block clears the flag and starts nothing.
FinallyStartsNothing(j, q, st) == [queue |-> q, flag |-> FALSE, st |-> FinallyHead(j, st)]

\* The finally block of a runner: schedule the removal of the folder, drop
\* the emitter from the registry, clear the running flag, start the next task.
FinallyUpload(j, q, st) == processNextTask(q, FinallyHead(j, st))

FinallyGmail(j, q, st) == processNextGmailTask(q, FinallyHead(j, st))

\* Mutant: a submit handler takes either queue's flag for its own.
QueueBusyEither(flag) == isProcessing \/ isGmailProcessing

\* The submit handlers' test `if (isProcessing) {...} else processNextTask()`.
QueueBusy(flag) == flag

\* queue.findIndex(task => task.sessionId === sessionId) + 1, for a queue of
\* the tasks of the jobs R: the first task of that session, 0 when none.
getQueuePosition(q, R, sessionId) ==
  LET found == {i \in 1..Len(q) : R[q[i]].sessionId = sessionId} IN
  IF found = {} THEN 0 ELSE CHOOSE i \in found : \A k \in found : i <= k

\* ---------------------------------------------------------- progress streams
\* A client without a progress stream.  A closed stream remembers the
\* client's session cookie and whether the client left while the job of its
\* emitter was not over (leftMidJob).
NoStream ==
  [open |-> FALSE, sessionId |-> 0, emitter |-> 0, since |-> 0,
   received |-> <<>>, leftMidJob |-> FALSE, resubscribed |-> FALSE]

\* The stream s after its connection was closed.
Closed(s) ==
  [NoStream EXCEPT !.sessionId = s.sessionId,
                   !.leftMidJob = jobs[s.emitter].pc # "done"]

\* Mutant: the close handler removes every listener of the emitter.
removeAllListeners(S, c) ==
  [d \in DOMAIN S |->
     IF S[d].open /\ S[d].emitter = S[c].emitter THEN Closed(S[d]) ELSE S[d]]

\* progressEmitter.removeListener('progress', onProgress): the listener of
\* client c's stream, and no other.
removeListener(S, c) ==
  [d \in DOMAIN S |-> IF d = c THEN Closed(S[d]) ELSE S[d]]

\* Mutant: a new listener is first handed every snapshot published so far.
ReplayHistory(r) == [i \in 1..r.emitted |-> i]

\* progressEmitter.on('progress', onProgress): the listener is registered and
\* handed nothing; it is called for the snapshots emitted from now on.
OnSubscribe(r) == <<>>

\* The numbers a+1..b in order.
Numbers(a, b) == [i \in 1..(b - a) |-> a + i]

\* emit() calls the listeners registered at that moment: onProgress writes the
\* snapshot to its response.  R0 and R1 are the jobs before and after the
\* segment; snapshots are named by their number on their emitter.
Deliver(S, R0, R1) ==
  [c \in DOMAIN S |->
     IF S[c].open
     THEN [S[c] EXCEPT !.received =
             @ \o Numbers(R0[S[c].emitter].emitted, R1[S[c].emitter].emitted)]
     ELSE S[c]]

\* Once a runner has returned, its emitter is out of the registry and
\* publishes nothing more: its count is dropped with the runner's locals.
Settled(R) ==
  [j \in DOMAIN R |-> IF R[j].pc = "done" THEN [R[j] EXCEPT !.emitted = 0] ELSE R[j]]

\* The jobs at the end of a segment are R; what they published in the segment
\* went to the open streams.
Publish(R) ==
  /\ jobs' = Settled(R)
  /\ streams' = Deliver(streams, jobs, R)

\* A segment of job j ends with the job's locals r, the cache and the call
\* counts as given; when the runner returned, its finally block follows.
CommitWith(j, r, cache, calls, T) ==
  LET st == [R |-> [jobs EXCEPT ![j] = r], T |-> T, E |-> progressEmitters] IN
  /\ processedFileCache' = cache
  /\ annotCalls' = calls
  /\ UNCHANGED <<mail, documentVars, MAX_CONCURRENT_FILE_PROCESSING, PROCESSED_FILE_CACHE_LIMIT,
                 SERVICE_ACCOUNT_BASE64, nextJob, jobsLeft, sharedSessions,
                 sessionsSeen, timersFired>>
  /\ IF r.pc # "done"
     THEN /\ Publish(st.R)
          /\ timers' = st.T
          /\ UNCHANGED <<taskQueue, isProcessing, gmailTaskQueue,
                         isGmailProcessing, progressEmitters>>
     ELSE IF r.kind = "upload"
          THEN LET n == FinallyUpload(j, taskQueue, st) IN
               /\ Publish(n.st.R)
               /\ timers' = n.st.T
               /\ progressEmitters' = n.st.E
               /\ taskQueue' = n.queue
               /\ isProcessing' = n.flag
               /\ UNCHANGED <<gmailTaskQueue, isGmailProcessing>>
          ELSE LET n == FinallyGmail(j, gmailTaskQueue, st) IN
               /\ Publish(n.st.R)
               /\ timers' = n.st.T
               /\ progressEmitters' = n.st.E
               /\ gmailTaskQueue' = n.queue
               /\ isGmailProcessing' = n.flag
               /\ UNCHANGED <<taskQueue, isProcessing>>

Commit(j, r, cache, calls) == CommitWith(j, r, cache, calls, timers)

\* ------------------------------------------------------------------ actions
\* The state after the module is loaded: empty queues, empty cache.
Loaded ==
  /\ taskQueue = <<>>
  /\ isProcessing = FALSE
  /\ gmailTaskQueue = <<>>
  /\ isGmailProcessing = FALSE
  /\ processedFileCache = <<>>
  /\ jobs = [j \in Jobs |-> NewJob]
  /\ nextJob = 1
  /\ contentsSeen = 0
  /\ annotCalls = {}
  /\ sessionsSeen = 0
  /\ folders = [x \in Sessions |-> NoFolder]
  /\ timers = <<>>
  /\ timersFired = 0
  /\ progressEmitters = [x \in Sessions |-> 0]
  /\ streams = [c \in Clients |-> NoStream]

\* The scheduler under the default env settings, with or without credentials.
Init ==
  /\ Loaded
  /\ MAX_CONCURRENT_FILE_PROCESSING = DefaultConcurrency
  /\ PROCESSED_FILE_CACHE_LIMIT = DefaultCacheLimit
  /\ SERVICE_ACCOUNT_BASE64 \in BOOLEAN
  /\ jobsLeft = MaxJobs
  /\ filesLeft = MaxTotalFiles
  /\ sharedSessions = FALSE
  /\ mail = NoMail
  /\ NoDocument

\* One job under every env setting Math.max(1, parseInt(...)) can give.
BatchInit ==
  /\ Loaded
  /\ MAX_CONCURRENT_FILE_PROCESSING \in 1..MaxW
  /\ PROCESSED_FILE_CACHE_LIMIT \in 1..MaxLimit
  /\ SERVICE_ACCOUNT_BASE64 = TRUE
  /\ jobsLeft = 1
  /\ filesLeft = MaxBatchFiles
  /\ sharedSessions = FALSE
  /\ mail = NoMail
  /\ NoDocument

\* app.post('/upload'): enqueue the task; announce the position when the
\* queue is busy, otherwise start it.
\* The request's session: one that sent a request before, or a new one; in a
\* run without shared sessions every request comes from a new session.
SessionOfRequest(sid) ==
  /\ sid \in 1..(sessionsSeen + 1)
  /\ ~sharedSessions => sid = sessionsSeen + 1
  /\ sessionsSeen' = IF sid > sessionsSeen THEN sid ELSE sessionsSeen

SubmitUpload(n, sid) ==
  /\ jobsLeft > 0
  /\ n <= filesLeft
  /\ SessionOfRequest(sid)
  /\ folders' = IF n > 0
                THEN WriteItem(ensureDirSync(folders, sid), sid, Item(nextJob, "input"))
                ELSE ensureDirSync(folders, sid)
  /\ LET j == nextJob
         r == [NewJob EXCEPT !.kind = "upload", !.files = n, !.inputs = n,
                             !.pc = "queued", !.sessionId = sid]
         q == Append(taskQueue, j)
         E == [progressEmitters EXCEPT ![sid] = j]
     IN IF QueueBusy(isProcessing)
        THEN /\ Publish([jobs EXCEPT ![j] = [Emit(r) EXCEPT !.snapshot =
                         QueuedSnapshot(getQueuePosition(q, [jobs EXCEPT ![j] = r], sid))]])
             /\ taskQueue' = q
             /\ progressEmitters' = E
             /\ UNCHANGED <<isProcessing, timers>>
        ELSE LET s == processNextTask(q, [R |-> [jobs EXCEPT ![j] = r],
                                          T |-> timers, E |-> E]) IN
             /\ Publish(s.st.R)
             /\ timers' = s.st.T
             /\ progressEmitters' = s.st.E
             /\ taskQueue' = s.queue
             /\ isProcessing' = s.flag
  /\ nextJob' = nextJob + 1
  /\ jobsLeft' = jobsLeft - 1
  /\ filesLeft' = filesLeft - n
  /\ UNCHANGED <<mail, documentVars, MAX_CONCURRENT_FILE_PROCESSING, PROCESSED_FILE_CACHE_LIMIT,
                 SERVICE_ACCOUNT_BASE64, gmailTaskQueue, isGmailProcessing,
                 processedFileCache, annotCalls, contentsSeen, sharedSessions,
                 timersFired>>

\* app.post('/process-gmail')
SubmitGmail(sid) ==
  /\ jobsLeft > 0
  /\ SessionOfRequest(sid)
  /\ folders' = ensureDirSync(folders, sid)
  /\ LET j == nextJob
         r == [NewJob EXCEPT !.kind = "gmail", !.pc = "queued", !.sessionId = sid]
         q == Append(gmailTaskQueue, j)
         E == [progressEmitters EXCEPT ![sid] = j]
     IN IF QueueBusy(isGmailProcessing)
        THEN /\ Publish([jobs EXCEPT ![j] = [Emit(r) EXCEPT !.snapshot =
                         QueuedSnapshot(getQueuePosition(q, [jobs EXCEPT ![j] = r], sid))]])
             /\ gmailTaskQueue' = q
             /\ progressEmitters' = E
             /\ UNCHANGED <<isGmailProcessing, timers>>
        ELSE LET s == processNextGmailTask(q, [R |-> [jobs EXCEPT ![j] = r],
                                               T |-> timers, E |-> E]) IN
             /\ Publish(s.st.R)
             /\ timers' = s.st.T
             /\ progressEmitters' = s.st.E
             /\ gmailTaskQueue' = s.queue
             /\ isGmailProcessing' = s.flag
  /\ nextJob' = nextJob + 1
  /\ jobsLeft' = jobsLeft - 1
  /\ UNCHANGED <<mail, documentVars, MAX_CONCURRENT_FILE_PROCESSING, PROCESSED_FILE_CACHE_LIMIT,
                 SERVICE_ACCOUNT_BASE64, taskQueue, isProcessing,
                 processedFileCache, annotCalls, filesLeft, contentsSeen,
                 sharedSessions, timersFired>>

\* The number of files an item of a folder stands for: the input files of the
\* job that put them there, one workbook, one archive.
FileCount(item, R) == IF item.what = "input" THEN R[item.by].inputs ELSE 1

RECURSIVE CountFiles(_, _)
CountFiles(items, R) ==
  IF items = {} THEN 0
  ELSE LET item == CHOOSE x \in items : TRUE IN
       FileCount(item, R) + CountFiles(items \ {item}, R)

\* await downloadGmailAttachments(...) settles: it failed, or it saved n
\* attachments into the folder.  Then fs.readdirSync(userFolder) lists
\* everything that is in the folder (it throws when the folder is gone).
DownloadDone(j, ok, n) ==
  /\ jobs[j].pc = "download"
  /\ n <= filesLeft
  /\ LET r == [jobs[j] EXCEPT !.inputs = n]
         dir == folders[r.sessionId]
         F == IF n > 0 THEN WriteItem(folders, r.sessionId, Item(j, "input")) ELSE folders
         ls == F[r.sessionId].items
         files == CountFiles(ls, [jobs EXCEPT ![j] = r])
     IN /\ n > 0 => ok /\ dir.exists
        /\ (ok /\ dir.exists) => files - n <= MaxForeignListed
        /\ folders' = F
        /\ filesLeft' = filesLeft - n
        /\ UNCHANGED contentsSeen
        /\ Commit(j,
                  IF ~ok THEN Fail(r, "gmail")
                  ELSE IF ~dir.exists THEN Fail(r, "ENOENT")
                  ELSE IF files = 0 THEN Finish(r, Snapshot("noFiles"))
                  ELSE IF ~SERVICE_ACCOUNT_BASE64
                       THEN Fail([WithFiles(r, files) EXCEPT !.listed = ls],
                                 "SERVICE_ACCOUNT_BASE64 is not set.")
                       ELSE [WithFiles(r, files) EXCEPT !.pc = "authorize", !.listed = ls],
                  processedFileCache, annotCalls)

\* The `files` the runner of job j hands to createZipFile, as items of the
\* folder: the upload runner hands over the paths multer gave its request,
\* the Gmail runner what fs.readdirSync listed after the download.
ArchivedItems(j) ==
  IF jobs[j].kind = "gmail" THEN jobs[j].listed
  ELSE IF jobs[j].inputs > 0 THEN {Item(j, "input")} ELSE {}

\* await serviceAccountAuth.authorize() settles.
AuthorizeDone(j, ok) ==
  /\ jobs[j].pc = "authorize"
  /\ UNCHANGED <<filesLeft, contentsSeen, folders>>
  /\ Commit(j, IF ok THEN StartBatch(jobs[j]) ELSE Fail(jobs[j], "authorize"),
            processedFileCache, annotCalls)

\* One more annotator request, for content c.
Called(calls, c) == calls \cup {c}

\* The contents sent after a step that left worker k's handler in r2: one
\* more when the step entered parseReceiptWithDocumentAI.
CallsAfter(r2, k, c) ==
  IF r2.workers[k].pc = "annot" THEN Called(annotCalls, c) ELSE annotCalls

\* await getFileChecksum(filePath) settles for worker k of job j: the stream
\* read the bytes c and resolved (ok) or failed.  Contents are numbered in the
\* order they are first read: c is one read before, or the next new one.  On
\* a hit the cached value is returned; otherwise processFile is entered, from
\* the try block when the checksum is known, from the catch block when it is
\* not.
HashDone(j, k, c, ok, pdf) ==
  /\ jobs[j].pc = "batch"
  /\ k \in 1..Len(jobs[j].workers)
  /\ jobs[j].workers[k].pc = "hash"
  /\ c \in 1..(contentsSeen + 1)
  /\ contentsSeen' = IF c > contentsSeen THEN c ELSE contentsSeen
  /\ UNCHANGED <<filesLeft, folders>>
  /\ LET r == jobs[j]
         idx == r.workers[k].idx
         hit == CacheHas(processedFileCache, c)
         r1 == [r EXCEPT !.fileLog[idx + 1].content = c,
                         !.fileLog[idx + 1].lookup =
                            IF ~ok THEN "nohash" ELSE IF hit THEN "hit" ELSE "miss"]
     IN IF UseCache(ok, hit)
        THEN /\ ~pdf
             /\ Commit(j, HandlerReturn(r1, k, CacheGet(processedFileCache, c)),
                       processedFileCache, annotCalls)
        ELSE LET r2 == ProcessFileStart(r1, k, pdf) IN
             Commit(j, r2, processedFileCache, CallsAfter(r2, k, c))

\* await isPdfEncrypted(filePath) settles (a probe error reads as encrypted).
ProbeDone(j, k, encrypted) ==
  /\ jobs[j].pc = "batch"
  /\ k \in 1..Len(jobs[j].workers)
  /\ jobs[j].workers[k].pc = "probe"
  /\ UNCHANGED <<filesLeft, contentsSeen, folders>>
  /\ LET r == jobs[j]
         idx == r.workers[k].idx
         r2 == IF encrypted
               THEN [r EXCEPT !.workers[k].pc = "unlock"]
               ELSE AnnotStart(r, k)
     IN Commit(j, r2, processedFileCache,
               CallsAfter(r2, k, r.fileLog[idx + 1].content))

\* getExpenseDataWithCache after processFile returned data: on the try path a
\* truthy result is remembered under the checksum; the value goes to the
\* handler either way.
ProcessFileReturns(j, k, r, data) ==
  LET log == r.fileLog[r.workers[k].idx + 1] IN
  Commit(j, HandlerReturn(r, k, data),
         IF log.lookup = "miss" /\ Truthy(data)
         THEN rememberCacheEntry(processedFileCache, log.content, data)
         ELSE processedFileCache,
         annotCalls)

\* await unlockPdf(filePath, password) settles: the unlocked path, or null
\* (also when PDFCO_API_KEY is missing or a request fails).
UnlockDone(j, k, ok) ==
  /\ jobs[j].pc = "batch"
  /\ k \in 1..Len(jobs[j].workers)
  /\ jobs[j].workers[k].pc = "unlock"
  /\ UNCHANGED <<filesLeft, contentsSeen, folders>>
  /\ LET r == jobs[j]
         idx == r.workers[k].idx
     IN IF ok
        THEN LET r2 == AnnotStart(r, k) IN
             Commit(j, r2, processedFileCache,
                    CallsAfter(r2, k, r.fileLog[idx + 1].content))
        ELSE ProcessFileReturns(j, k, r, Null)

\* What parseReceiptWithDocumentAI returns: the normalised record of a 200
\* response, `{}` from its catch block or for any other status.
AnnotatorResult(ok, idx, c) ==
  IF ok THEN ExpenseRecord(idx, c) ELSE EmptyObject

\* await parseReceiptWithDocumentAI(...) settles.
AnnotDone(j, k, ok) ==
  /\ jobs[j].pc = "batch"
  /\ k \in 1..Len(jobs[j].workers)
  /\ jobs[j].workers[k].pc = "annot"
  /\ UNCHANGED <<filesLeft, contentsSeen, folders>>
  /\ LET r == jobs[j]
         idx == r.workers[k].idx
     IN ProcessFileReturns(j, k, r, AnnotatorResult(ok, idx, r.fileLog[idx + 1].content))

\* The promise of processFile rejects.  Its PDF branch is inside a try whose
\* catch returns null, so only its last await, on parseReceiptWithDocumentAI,
\* lets an exception through: one raised outside that function's own try.
\* Inside getExpenseDataWithCache's try block the catch calls processFile
\* again, uncached; from the catch block nothing guards the call, the
\* rejection leaves the handler and reaches the worker's catch.
ProcessFileRejects(j, k) ==
  /\ jobs[j].pc = "batch"
  /\ k \in 1..Len(jobs[j].workers)
  /\ jobs[j].workers[k].pc = "annot"
  /\ UNCHANGED <<filesLeft, contentsSeen, folders>>
  /\ LET r == jobs[j]
         idx == r.workers[k].idx
         log == r.fileLog[idx + 1]
     IN IF log.lookup = "miss"
        THEN LET r1 == [r EXCEPT !.fileLog[idx + 1].lookup = "nohash",
                                 !.workers[k].pc = "retry"]
                 r2 == ProcessFileStart(r1, k, log.pdf)
             IN Commit(j, r2, processedFileCache, CallsAfter(r2, k, log.content))
        ELSE Commit(j, HandlerThrow(r, k), processedFileCache, annotCalls)

\* Mutant: the failure of the write is swallowed and the runner goes on to the
\* archive.
WriteFailureSwallowed(r) == [r EXCEPT !.pc = "zip"]

\* workbook.xlsx.writeFile rejects: createExpenseExcel throws 'Failed to save
\* Excel file' and the runner's catch block takes it.
WriteFailed(r) == Fail(r, "Failed to save Excel file")

\* await workbook.xlsx.writeFile(fullPath) settles in createExpenseExcel.
ExcelDone(j, ok) ==
  /\ jobs[j].pc = "excel"
  /\ ok => folders[jobs[j].sessionId].exists
  /\ folders' = IF ok THEN WriteItem(folders, jobs[j].sessionId, Item(j, "xlsx"))
                ELSE folders
  /\ UNCHANGED <<filesLeft, contentsSeen>>
  /\ Commit(j, IF ok THEN [jobs[j] EXCEPT !.pc = "zip"] ELSE WriteFailed(jobs[j]),
            processedFileCache, annotCalls)

\* await createZipFile(...) settles; on success the completion snapshot with
\* the download links is published.
ZipDone(j, ok) ==
  /\ jobs[j].pc = "zip"
  /\ ok => folders[jobs[j].sessionId].exists
  /\ folders' = IF ok THEN WriteItem(folders, jobs[j].sessionId, Item(j, "zip"))
                ELSE folders
  /\ UNCHANGED <<filesLeft, contentsSeen>>
  /\ CommitWith(j, IF ok THEN Finish(jobs[j], Snapshot("completed"))
                   ELSE Fail(jobs[j], "zip"),
                processedFileCache, annotCalls,
                IF ok /\ jobs[j].kind = "gmail"
                THEN scheduleFolderDeletion(timers, jobs[j].sessionId, RetentionMs, j)
                ELSE timers)

\* Everything job j does once submitted: the settling of its awaited calls.
JobStep(j) ==
  \/ \E ok \in BOOLEAN, n \in 0..filesLeft : DownloadDone(j, ok, n)
  \/ \E ok \in BOOLEAN : AuthorizeDone(j, ok)
  \/ \E k \in 1..Len(jobs[j].workers), c \in 1..(contentsSeen + 1), ok \in BOOLEAN, pdf \in BOOLEAN :
       HashDone(j, k, c, ok, pdf)
  \/ \E k \in 1..Len(jobs[j].workers), e \in BOOLEAN : ProbeDone(j, k, e)
  \/ \E k \in 1..Len(jobs[j].workers), ok \in BOOLEAN : UnlockDone(j, k, ok)
  \/ \E k \in 1..Len(jobs[j].workers), ok \in BOOLEAN : AnnotDone(j, k, ok)
  \/ \E k \in 1..Len(jobs[j].workers) : ProcessFileRejects(j, k)
  \/ \E ok \in BOOLEAN : ExcelDone(j, ok)
  \/ \E ok \in BOOLEAN : ZipDone(j, ok)

Next ==
  \/ \E n \in 0..filesLeft, sid \in Sessions : SubmitUpload(n, sid)
  \/ \E sid \in Sessions : SubmitGmail(sid)
  \/ \E j \in Jobs : JobStep(j)

Spec == Init /\ [][Next]_vars

BatchSpec == BatchInit /\ [][Next]_vars

\* ------------------------------------------- the cache operations alone
\* The cache under every sequence of rememberCacheEntry calls, for keys
\* numbered in the order they are first offered.
CacheInit ==
  /\ Loaded
  /\ MAX_CONCURRENT_FILE_PROCESSING = DefaultConcurrency
  /\ PROCESSED_FILE_CACHE_LIMIT \in 1..MaxLimit
  /\ SERVICE_ACCOUNT_BASE64 = TRUE
  /\ jobsLeft = 0
  /\ filesLeft = 0
  /\ sharedSessions = FALSE
  /\ mail = NoMail
  /\ NoDocument

CacheValues(key) == {ExpenseRecord(0, key), ExpenseRecord(1, key), EmptyObject, Null}

RememberEntry(key, value) ==
  /\ processedFileCache' = rememberCacheEntry(processedFileCache, key, value)
  /\ contentsSeen' = IF key > contentsSeen THEN key ELSE contentsSeen
  /\ UNCHANGED <<mail, documentVars, MAX_CONCURRENT_FILE_PROCESSING, PROCESSED_FILE_CACHE_LIMIT,
                 SERVICE_ACCOUNT_BASE64, taskQueue, isProcessing, gmailTaskQueue,
                 isGmailProcessing, jobs, nextJob, jobsLeft, filesLeft, annotCalls,
                 sharedSessions, sessionsSeen, folders, timers, timersFired,
                 progressEmitters, streams>>

CacheNext ==
  \E key \in 1..Min(contentsSeen + 1, MaxKeys) :
    \E value \in CacheValues(key) : RememberEntry(key, value)

CacheSpec == CacheInit /\ [][CacheNext]_vars

\* ------------------------------------- sessions that send several requests
\* The retention timer that was set first fires (all timers have the same
\* delay): fs.remove(folderPath).
TimerFires ==
  /\ timersFired < Len(timers)
  /\ folders' = RemoveFolder(folders, timers[timersFired + 1].folderPath)
  /\ timersFired' = timersFired + 1
  /\ UNCHANGED <<mail, documentVars, MAX_CONCURRENT_FILE_PROCESSING, PROCESSED_FILE_CACHE_LIMIT,
                 SERVICE_ACCOUNT_BASE64, taskQueue, isProcessing, gmailTaskQueue,
                 isGmailProcessing, processedFileCache, jobs, nextJob, jobsLeft,
                 filesLeft, contentsSeen, annotCalls, sharedSessions, sessionsSeen,
                 timers, progressEmitters, streams>>

SessionInit ==
  /\ Loaded
  /\ MAX_CONCURRENT_FILE_PROCESSING = DefaultConcurrency
  /\ PROCESSED_FILE_CACHE_LIMIT = DefaultCacheLimit
  /\ SERVICE_ACCOUNT_BASE64 = TRUE
  /\ jobsLeft = MaxSessionJobs
  /\ filesLeft = MaxSessionFiles
  /\ sharedSessions = TRUE
  /\ mail = NoMail
  /\ NoDocument

SessionNext == Next \/ TimerFires

SessionSpec == SessionInit /\ [][SessionNext]_vars

\* ------------------------------------------------- clients of the streams
\* app.get('/upload-progress') and app.get('/gmail-progress'), for client c
\* with the cookie of session sid.  Without an emitter in the registry the
\* answer is 404 and nothing changes; otherwise a listener is added to the
\* emitter the registry holds for the session.
Subscribe(c, sid) ==
  /\ ~streams[c].open
  /\ streams[c].sessionId \in {0, sid}
  /\ sid \in 1..sessionsSeen
  /\ progressEmitters[sid] # 0
  /\ LET j == progressEmitters[sid] IN
     streams' = [streams EXCEPT ![c] =
                   [open |-> TRUE, sessionId |-> sid, emitter |-> j,
                    since |-> jobs[j].emitted, received |-> OnSubscribe(jobs[j]),
                    leftMidJob |-> FALSE, resubscribed |-> streams[c].leftMidJob]]
  /\ UNCHANGED <<mail, documentVars, MAX_CONCURRENT_FILE_PROCESSING, PROCESSED_FILE_CACHE_LIMIT,
                 SERVICE_ACCOUNT_BASE64, taskQueue, isProcessing, gmailTaskQueue,
                 isGmailProcessing, processedFileCache, jobs, nextJob, jobsLeft,
                 filesLeft, contentsSeen, annotCalls, sharedSessions, sessionsSeen,
                 folders, timers, timersFired, progressEmitters>>

\* req.on('close'): the listener of this stream is removed from its emitter,
\* the heartbeat is cleared, and the session's entry is deleted from the
\* registry.
Disconnect(c) ==
  /\ streams[c].open
  /\ streams' = removeListener(streams, c)
  /\ progressEmitters' = RegistryDelete(progressEmitters, streams[c].sessionId)
  /\ UNCHANGED <<mail, documentVars, MAX_CONCURRENT_FILE_PROCESSING, PROCESSED_FILE_CACHE_LIMIT,
                 SERVICE_ACCOUNT_BASE64, taskQueue, isProcessing, gmailTaskQueue,
                 isGmailProcessing, processedFileCache, jobs, nextJob, jobsLeft,
                 filesLeft, contentsSeen, annotCalls, sharedSessions, sessionsSeen,
                 folders, timers, timersFired>>

ProgressInit ==
  /\ Loaded
  /\ MAX_CONCURRENT_FILE_PROCESSING = DefaultConcurrency
  /\ PROCESSED_FILE_CACHE_LIMIT = DefaultCacheLimit
  /\ SERVICE_ACCOUNT_BASE64 = TRUE
  /\ jobsLeft = MaxProgressJobs
  /\ filesLeft = MaxProgressFiles
  /\ sharedSessions = TRUE
  /\ mail = NoMail
  /\ NoDocument

ProgressNext ==
  \/ Next
  \/ \E c \in 1..MaxReturning : \E sid \in Sessions : Subscribe(c, sid)
  \/ \E c \in 1..MaxReturning : Disconnect(c)

ProgressSpec == ProgressInit /\ [][ProgressNext]_vars

\* Several clients watch jobs of sessions that submit once.
WatchInit ==
  /\ Loaded
  /\ MAX_CONCURRENT_FILE_PROCESSING = DefaultConcurrency
  /\ PROCESSED_FILE_CACHE_LIMIT = DefaultCacheLimit
  /\ SERVICE_ACCOUNT_BASE64 = TRUE
  /\ jobsLeft = MaxProgressJobs
  /\ filesLeft = MaxProgressFiles
  /\ sharedSessions = FALSE
  /\ mail = NoMail
  /\ NoDocument

WatchNext ==
  \/ Next
  \/ \E c \in Clients : \E sid \in Sessions : Subscribe(c, sid)
  \/ \E c \in Clients : Disconnect(c)

\* Every awaited collaborator call eventually settles, whatever the clients do.
WatchSpec ==
  WatchInit /\ [][WatchNext]_vars /\ \A j \in Jobs : WF_vars(JobStep(j))

\* ------------------------------------------- one message of the mailbox
\* `await gmail.users.messages.get(...)` returned the message: parse the
\* headers, decide whether to skip it, run the first loop over the parts and
\* the second loop up to its first `await ...attachments.get(...)`.
MessageFetched ==
  /\ mail.pc = "get"
  /\ mail' = IF SkipMessage(mail)
             THEN [mail EXCEPT !.pc = "done", !.skipped = TRUE]
             ELSE LET k == NextFetch(mail, 0) IN
                  IF k = 0 THEN [mail EXCEPT !.pc = "done"]
                  ELSE [mail EXCEPT !.pc = "attachment", !.i = k]
  /\ UNCHANGED <<documentVars, MAX_CONCURRENT_FILE_PROCESSING,
                 PROCESSED_FILE_CACHE_LIMIT,
                 SERVICE_ACCOUNT_BASE64, taskQueue, isProcessing, gmailTaskQueue,
                 isGmailProcessing, processedFileCache, jobs, nextJob, jobsLeft,
                 filesLeft, contentsSeen, annotCalls, sharedSessions, sessionsSeen,
                 folders, timers, timersFired, progressEmitters, streams>>

\* The attachment of part i arrived: fs.writeFileSync(filePath, buffer), then
\* the loop goes on to its next await or to its end.
AttachmentFetched ==
  /\ mail.pc = "attachment"
  /\ LET k == NextFetch(mail, mail.i)
         m == [mail EXCEPT !.written = Append(@, mail.i)]
     IN mail' = IF k = 0 THEN [m EXCEPT !.pc = "done", !.i = 0]
                ELSE [m EXCEPT !.i = k]
  /\ UNCHANGED <<documentVars, MAX_CONCURRENT_FILE_PROCESSING,
                 PROCESSED_FILE_CACHE_LIMIT,
                 SERVICE_ACCOUNT_BASE64, taskQueue, isProcessing, gmailTaskQueue,
                 isGmailProcessing, processedFileCache, jobs, nextJob, jobsLeft,
                 filesLeft, contentsSeen, annotCalls, sharedSessions, sessionsSeen,
                 folders, timers, timersFired, progressEmitters, streams>>

\* The messages the classifier is run on.
Address == <<"a", "@", "b">>
Angle(str) == <<"<">> \o str \o <<">">>
Acme == <<"A", "c", "m", "e">>
Senders ==
  {<<>>, Address,
   Acme \o <<" ">> \o Angle(Address),
   HevratHashmalLeIsrael \o <<" ">> \o Angle(Address),
   Acme \o <<" ">> \o Angle(IriyatTelAvivYafo),
   ArnonaIriyatTelAvivYafo}

SubjectFragments == {Arnona, Qabala, HeshbonHodshi, <<"R", "E", "C", "E", "I", "P", "T">>}

\* The subject lines of up to n fragments, a blank between two.
RECURSIVE SubjectsOf(_)
SubjectsOf(n) ==
  IF n = 0 THEN {<<>>}
  ELSE SubjectsOf(n - 1) \cup SubjectFragments \cup
       {a \o <<" ">> \o b : a \in SubjectsOf(n - 1) \ {<<>>}, b \in SubjectFragments}

Filenames ==
  {<<>>,
   <<"s", "c", "a", "n", ".", "p", "d", "f">>,
   <<"R", "e", "c", "e", "i", "p", "t", ".", "P", "D", "F">>,
   Heshbonit \o <<".", "b", "i", "n">>}

MimeTypes ==
  {<<"A", "p", "p", "l", "i", "c", "a", "t", "i", "o", "n", "/", "P", "D", "F">>,
   <<"i", "m", "a", "g", "e", "/", "p", "n", "g">>}

Parts == [filename : Filenames, mimeType : MimeTypes, attachmentId : {"", "id"}]

\* getParts(msg.data.payload) gave up to n parts.
RECURSIVE PartLists(_)
PartLists(n) ==
  IF n = 0 THEN {<<>>}
  ELSE PartLists(n - 1) \cup
       {Append(ps, part) : ps \in PartLists(n - 1), part \in Parts}

ClassifierInit ==
  /\ Loaded
  /\ MAX_CONCURRENT_FILE_PROCESSING = DefaultConcurrency
  /\ PROCESSED_FILE_CACHE_LIMIT = DefaultCacheLimit
  /\ SERVICE_ACCOUNT_BASE64 = TRUE
  /\ jobsLeft = 0
  /\ filesLeft = 0
  /\ sharedSessions = FALSE
  /\ \E sender \in Senders : \E subject \in SubjectsOf(MaxSubjectFragments) :
       \E parts \in PartLists(MaxParts) :
         mail = [NoMail EXCEPT !.sender = sender, !.subject = subject,
                               !.parts = parts, !.pc = "get"]
  /\ NoDocument

ClassifierNext == MessageFetched \/ AttachmentFetched

ClassifierSpec == ClassifierInit /\ [][ClassifierNext]_vars

\* Every awaited collaborator call eventually settles.
\* ------------------------------------------------------------ one document
MaxEntities == 2

\* new Date() while the documents are processed
Today == [valid |-> TRUE, y |-> 2024, m |-> 11, d |-> 5]

AmountTexts ==
  {<<"$", "1", "2", "0", ".", "0", "0">>, <<"1", "2", "0", ".", "0", "0">>,
   <<"sheqel sign", "1", "7", ".", "5", "0">>}
DateTexts ==
  {<<"10", "/", "04", "/", "2024">>, <<"13", "/", "04", "/", "2024">>,
   <<"31", "/", "04", "/", "2024">>, <<"2024", "-", "10", "-", "04">>,
   <<"Oct", " ", "04", ",", " ", "2024">>, <<"soon">>}
EntityPool ==
  {Entity("Total-Price", t) : t \in AmountTexts}
  \cup {Entity("Price-Without-Vat", <<"$", "1", "0", "0">>), Entity("VAT", <<"2", "0">>),
        Entity("Business-Name", Acme),
        MoneyEntity("Total-Price", <<"1", "2", "0">>, "USD"),
        MoneyEntity("Total-Price", <<"5", "0">>, "ILS")}
  \cup {Entity("Date", t) : t \in DateTexts}
EntityLists == UNION {[1..n -> EntityPool] : n \in 0..MaxEntities}
LanguageLists == {<<>>, <<"en">>, <<"iw">>, <<"he">>}
\* What earlier documents may have left in the cache of rates.
RateCaches ==
  {<<>>} \cup {<<[date |-> date, rate |-> getUsdToIlsExchangeRate(date)]>> :
                 date \in {formatDate(Today), formatDate(parse(<<"2024", "-", "10", "-", "04">>,
                                                                 dateFormats[1]))}}

\* The request fails or answers with another status than 200: `{}`.
DocumentFailed ==
  /\ parsing.pc = "post"
  /\ parsing' = [parsing EXCEPT !.pc = "done", !.result = EmptyResult]
  /\ UNCHANGED <<pipelineVars, exchangeRateCache, excel>>

\* The annotator's document arrives: both loops when no rate has to be
\* fetched, otherwise the first loop and the date, up to the await.
DocumentReturned ==
  /\ parsing.pc = "post"
  /\ LET primaryLanguage == getPrimaryLanguage(parsing.detectedLanguages)
         found == ScanEntities(parsing.entities, primaryLanguage, 1,
                               [hasUSD |-> FALSE, invoiceDate |-> <<>>])
         invoiceDate == NormalizeDate(found.invoiceDate, parsing.now)
         result == [NewResult(primaryLanguage) EXCEPT !.Date = invoiceDate]
         exchangeRate == CachedRate(exchangeRateCache, invoiceDate)
     IN IF found.hasUSD /\ exchangeRate = 0
        THEN parsing' = [parsing EXCEPT !.pc = "rate", !.hasUSD = TRUE,
                                        !.invoiceDate = invoiceDate,
                                        !.rateCalls = @ + 1, !.result = result]
        ELSE parsing' = [parsing EXCEPT !.pc = "done", !.hasUSD = found.hasUSD,
                                        !.invoiceDate = invoiceDate,
                                        !.result = BuildResult(result, parsing.entities,
                                                               found.hasUSD, exchangeRate)]
  /\ UNCHANGED <<pipelineVars, exchangeRateCache, excel>>

\* getUsdToIlsExchangeRate answers: the rate is cached, the second loop runs.
RateReturned ==
  /\ parsing.pc = "rate"
  /\ LET exchangeRate == getUsdToIlsExchangeRate(parsing.invoiceDate) IN
       /\ exchangeRateCache' = StoreRate(exchangeRateCache, parsing.invoiceDate, exchangeRate)
       /\ parsing' = [parsing EXCEPT !.pc = "done",
                                     !.result = BuildResult(parsing.result, parsing.entities,
                                                            TRUE, exchangeRate)]
  /\ UNCHANGED <<pipelineVars, excel>>

NormalizerInit ==
  /\ Loaded
  /\ MAX_CONCURRENT_FILE_PROCESSING = DefaultConcurrency
  /\ PROCESSED_FILE_CACHE_LIMIT = DefaultCacheLimit
  /\ SERVICE_ACCOUNT_BASE64 = TRUE
  /\ jobsLeft = 0
  /\ filesLeft = 0
  /\ sharedSessions = FALSE
  /\ mail = NoMail
  /\ excel = NoExcel
  /\ exchangeRateCache \in RateCaches
  /\ \E entities \in EntityLists, detectedLanguages \in LanguageLists :
       parsing = [NoParsing EXCEPT !.pc = "post", !.entities = entities,
                                   !.detectedLanguages = detectedLanguages,
                                   !.now = Today]

NormalizerNext == DocumentFailed \/ DocumentReturned \/ RateReturned

NormalizerSpec == NormalizerInit /\ [][NormalizerNext]_vars

\* ------------------------------------------------- one document after another
MaxRateEntries == 2

\* The documents of receipts with a total and a date.
DatedEntityLists ==
  {<<Entity("Total-Price", amount), Entity("Date", date)>> :
     amount \in AmountTexts, date \in DateTexts}

\* parseReceiptWithDocumentAI is called for the next file, up to the await of
\* the request.  The cache of rates is the one the earlier calls left.
ParseReceipt(entities, detectedLanguages) ==
  /\ parsing.pc = "done"
  /\ Len(exchangeRateCache) <= MaxRateEntries
  /\ parsing' = [NoParsing EXCEPT !.pc = "post", !.entities = entities,
                                  !.detectedLanguages = detectedLanguages,
                                  !.now = Today]
  /\ UNCHANGED <<pipelineVars, exchangeRateCache, excel>>

RatesInit ==
  /\ Loaded
  /\ MAX_CONCURRENT_FILE_PROCESSING = DefaultConcurrency
  /\ PROCESSED_FILE_CACHE_LIMIT = DefaultCacheLimit
  /\ SERVICE_ACCOUNT_BASE64 = TRUE
  /\ jobsLeft = 0
  /\ filesLeft = 0
  /\ sharedSessions = FALSE
  /\ mail = NoMail
  /\ excel = NoExcel
  /\ exchangeRateCache = <<>>
  /\ parsing = [NoParsing EXCEPT !.pc = "done"]

RatesNext ==
  \/ \E entities \in DatedEntityLists, detectedLanguages \in LanguageLists :
       ParseReceipt(entities, detectedLanguages)
  \/ DocumentFailed
  \/ DocumentReturned
  \/ RateReturned

RatesSpec == RatesInit /\ [][RatesNext]_vars

\* ------------------------------------------------------------ one workbook
MaxRows == 3

\* field ? parseFloat(field) : 0, for a field that is '', undefined or a number
CellNumber(cell) == IF cell.blank THEN 0 ELSE cell.n

\* The row added for one expense.
ExpenseRow(expense) ==
  [FileName |-> "receipt",
   OriginalTotalUSD |-> IF CellNumber(expense.OriginalTotalUSD) > 0
                        THEN Num(CellNumber(expense.OriginalTotalUSD)) ELSE Blank,
   PriceWithoutVat |-> Num(CellNumber(expense.PriceWithoutVat)),
   VAT |-> Num(CellNumber(expense.VAT)),
   TotalPrice |-> Num(CellNumber(expense.TotalPrice))]

\* totalWithoutVat, totalVAT, totalPrice, totalOriginalUSD after the forEach
RECURSIVE ColumnTotal(_, _)
ColumnTotal(expenses, column) ==
  IF Len(expenses) = 0 THEN 0
  ELSE CellNumber(Head(expenses)[column]) + ColumnTotal(Tail(expenses), column)

\* const totalsRow = worksheet.addRow({ FileName: 'Total', ... }): the cell of
\* a column that is not named stays empty.
TotalsRow(expenses) ==
  [FileName |-> "Total",
   OriginalTotalUSD |-> Blank,
   PriceWithoutVat |-> Num(ColumnTotal(expenses, "PriceWithoutVat")),
   VAT |-> Num(ColumnTotal(expenses, "VAT")),
   TotalPrice |-> Num(ColumnTotal(expenses, "TotalPrice"))]

\* The rows of the worksheet below the header.
WorksheetRows(expenses) ==
  [k \in 1..Len(expenses) |-> ExpenseRow(expenses[k])] \o <<TotalsRow(expenses)>>

\* createExpenseExcel up to the await of workbook.xlsx.writeFile
RowsAdded ==
  /\ excel.pc = "rows"
  /\ excel' = [excel EXCEPT !.pc = "write", !.worksheet = WorksheetRows(excel.expenses)]
  /\ UNCHANGED <<pipelineVars, exchangeRateCache, parsing>>

\* writeFile settles: the path is returned, or 'Failed to save Excel file' is
\* thrown.
FileWritten(ok) ==
  /\ excel.pc = "write"
  /\ excel' = [excel EXCEPT !.pc = IF ok THEN "written" ELSE "failed"]
  /\ UNCHANGED <<pipelineVars, exchangeRateCache, parsing>>

\* Records the normaliser returns.
LocalExpense ==
  [NewResult("iw") EXCEPT !.Date = <<2024, 10, 4>>, !.PriceWithoutVat = Num(100000),
                          !.VAT = Num(17000), !.TotalPrice = Num(117000),
                          !.Currency = "ILS"]
ForeignExpense ==
  [NewResult("en") EXCEPT !.Date = <<2024, 10, 4>>, !.OriginalTotalUSD = Num(100000),
                          !.PriceWithoutVat = Num(350000), !.TotalPrice = Num(420000),
                          !.Currency = "ILS"]
ForeignTotalOnly ==
  [NewResult("en") EXCEPT !.Date = <<2024, 10, 4>>, !.OriginalTotalUSD = Num(0),
                          !.TotalPrice = Num(420000), !.Currency = "ILS"]
ExpensePool == {LocalExpense, ForeignExpense, ForeignTotalOnly, EmptyResult}

WorkbookInit ==
  /\ Loaded
  /\ MAX_CONCURRENT_FILE_PROCESSING = DefaultConcurrency
  /\ PROCESSED_FILE_CACHE_LIMIT = DefaultCacheLimit
  /\ SERVICE_ACCOUNT_BASE64 = TRUE
  /\ jobsLeft = 0
  /\ filesLeft = 0
  /\ sharedSessions = FALSE
  /\ mail = NoMail
  /\ exchangeRateCache = <<>>
  /\ parsing = NoParsing
  /\ \E n \in 0..MaxRows : \E expenses \in [1..n -> ExpensePool] :
       excel = [NoExcel EXCEPT !.pc = "rows", !.expenses = expenses]

WorkbookNext == RowsAdded \/ \E ok \in BOOLEAN : FileWritten(ok)

WorkbookSpec == WorkbookInit /\ [][WorkbookNext]_vars

\* ------------------------------------------------------------ a call that never returns
MaxStallFiles == 3

\* The settling of an awaited call of worker k's handler in job j.
WorkerStep(j, k) ==
  \/ \E c \in 1..(contentsSeen + 1), ok \in BOOLEAN, pdf \in BOOLEAN : HashDone(j, k, c, ok, pdf)
  \/ \E e \in BOOLEAN : ProbeDone(j, k, e)
  \/ \E ok \in BOOLEAN : UnlockDone(j, k, ok)
  \/ \E ok \in BOOLEAN : AnnotDone(j, k, ok)
  \/ ProcessFileRejects(j, k)

StallInit ==
  /\ Loaded
  /\ MAX_CONCURRENT_FILE_PROCESSING \in 1..MaxW
  /\ PROCESSED_FILE_CACHE_LIMIT = DefaultCacheLimit
  /\ SERVICE_ACCOUNT_BASE64 = TRUE
  /\ jobsLeft = 1
  /\ filesLeft = MaxStallFiles
  /\ sharedSessions = FALSE
  /\ mail = NoMail
  /\ NoDocument

\* An upload job in which every awaited call of a handler settles in the end,
\* except those of the first worker's handler: any one of them may stay pending
\* for ever.
StallNext ==
  \/ \E n \in 0..filesLeft, sid \in Sessions : SubmitUpload(n, sid)
  \/ \E j \in Jobs, ok \in BOOLEAN : AuthorizeDone(j, ok)
  \/ \E j \in Jobs, k \in 1..MaxW : WorkerStep(j, k)
  \/ \E j \in Jobs, ok \in BOOLEAN : ExcelDone(j, ok)
  \/ \E j \in Jobs, ok \in BOOLEAN : ZipDone(j, ok)

StallSpec ==
  /\ StallInit
  /\ [][StallNext]_vars
  /\ \A j \in Jobs : \A k \in (1..MaxW) \ {1} : WF_vars(WorkerStep(j, k))

\* ------------------------------------------------------------ one file after another
\* An upload job whose files are handled by a single worker, with a small
\* cache.
SerialInit ==
  /\ Loaded
  /\ MAX_CONCURRENT_FILE_PROCESSING = 1
  /\ PROCESSED_FILE_CACHE_LIMIT \in 1..MaxLimit
  /\ SERVICE_ACCOUNT_BASE64 = TRUE
  /\ jobsLeft = 1
  /\ filesLeft = MaxStallFiles
  /\ sharedSessions = FALSE
  /\ mail = NoMail
  /\ NoDocument

SerialSpec == SerialInit /\ [][StallNext]_vars

LiveSpec == Spec /\ \A j \in Jobs : WF_vars(JobStep(j))

\* ------------------------------------------------------------------ claims
Started(j) == jobs[j].pc \notin {"none", "queued"}
Done(j) == jobs[j].pc = "done"
Running(j) == Started(j) /\ ~Done(j)
SameQueue(a, b) == jobs[a].kind # "none" /\ jobs[a].kind = jobs[b].kind
Files(j) == 1..Len(jobs[j].fileLog)

\* C1: in each queue at most one job runs at a time, and a job (ids follow the
\* order of submission) has not started unless every job submitted earlier to
\* the same queue has reached a terminal state.
C1_FifoOneAtATime ==
  /\ \A a, b \in Jobs :
       (a < b /\ SameQueue(a, b) /\ Started(b)) => Done(a)
  /\ \A a, b \in Jobs :
       (SameQueue(a, b) /\ Running(a) /\ Running(b)) => a = b

\* C1 witness: a job runs after an earlier job of its queue ended, while a
\* later one waits in the queue.
C1_Witness ==
  \E a, b, c \in Jobs :
    /\ a < b /\ b < c /\ SameQueue(a, b) /\ SameQueue(b, c)
    /\ Done(a) /\ Running(b) /\ jobs[c].pc = "queued"

\* C2: when every awaited collaborator call eventually settles, every
\* submitted job eventually starts and reaches a terminal state, also behind
\* jobs that failed.
C2_EveryJobEnds ==
  \A j \in Jobs : (jobs[j].pc # "none") ~> Done(j)

\* C2 witness: a job has started although the job before it in the same queue
\* ended with a failure.
C2_Witness ==
  \E a, b \in Jobs :
    /\ a < b /\ SameQueue(a, b)
    /\ jobs[a].snapshot.kind = "failed" /\ jobs[a].raised # "SERVICE_ACCOUNT_BASE64 is not set."
    /\ Started(b)

\* C3: an error raised while a job executes is caught by the runner: the job
\* is over and its last snapshot is the failed one carrying the error message.
C3_ErrorsEndAsFailedSnapshot ==
  \A j \in Jobs :
    jobs[j].raised # "none" =>
      /\ Done(j)
      /\ jobs[j].snapshot.kind = "failed"
      /\ jobs[j].snapshot.message = jobs[j].raised

\* C3 witness: a job ended on the missing-credentials error.
C3_Witness ==
  \E j \in Jobs :
    /\ jobs[j].raised = "SERVICE_ACCOUNT_BASE64 is not set."
    /\ Done(j) /\ jobs[j].snapshot = FailedSnapshot("SERVICE_ACCOUNT_BASE64 is not set.")

\* C4: the handler is invoked once for each index below the cursor and for no
\* other, and once the workers have joined, exactly once for every index
\* 0..N-1.
C4_EachIndexOnce ==
  \A j \in Jobs :
    LET r == jobs[j] IN
    /\ \A i \in 1..Len(r.handlerCalls) : r.handlerCalls[i] <= 1
    /\ r.pc = "batch" =>
         \A i \in 1..Len(r.handlerCalls) :
           r.handlerCalls[i] = (IF i <= r.cursor THEN 1 ELSE 0)
    /\ r.joined =>
         /\ Len(r.handlerCalls) = r.files
         /\ \A i \in 1..r.files : r.handlerCalls[i] = 1

\* C4 witness: a batch with more files than workers has joined.
C4_Witness ==
  \E j \in Jobs :
    /\ jobs[j].joined
    /\ jobs[j].files > MAX_CONCURRENT_FILE_PROCESSING
    /\ \A i \in 1..jobs[j].files : jobs[j].handlerCalls[i] = 1

\* C5: the handlers in flight never exceed min(W, N).
C5_InFlightBounded ==
  \A j \in Jobs :
    InFlight(jobs[j]) <= Min(MAX_CONCURRENT_FILE_PROCESSING, jobs[j].files)

\* C5 witness: the bound W is reached in a batch with more files than workers
\* while a file is still waiting for a worker.
C5_Witness ==
  \E j \in Jobs :
    /\ jobs[j].pc = "batch"
    /\ jobs[j].files > MAX_CONCURRENT_FILE_PROCESSING
    /\ InFlight(jobs[j]) = MAX_CONCURRENT_FILE_PROCESSING
    /\ jobs[j].cursor < jobs[j].files

\* A step in which parseReceiptWithDocumentAI is entered for file i of job j
\* from the try block of getExpenseDataWithCache.
FirstSendStep(j, i) ==
  /\ jobs[j].pc = "batch" /\ jobs'[j].pc = "batch"
  /\ \E k \in 1..Len(jobs[j].workers) :
       /\ jobs[j].workers[k].idx = i - 1
       /\ jobs[j].workers[k].pc \in {"hash", "probe", "unlock"}
       /\ jobs'[j].workers[k] = [idx |-> i - 1, pc |-> "annot"]
  /\ jobs'[j].fileLog[i].lookup = "miss"

\* C6: the annotator is invoked at most once per content: no file is sent to
\* it on the path that consults the cache whose content was sent to it before.
C6_AtMostOncePerContent ==
  [][\A j \in Jobs : \A i \in 1..Len(jobs'[j].fileLog) :
       FirstSendStep(j, i) => jobs'[j].fileLog[i].content \notin annotCalls]_vars

\* C7: a file whose checksum was found in the cache is never in the
\* encryption probe, the unlock call or the annotator call.
C7_HitCallsNoCollaborator ==
  \A j \in Jobs :
    \A k \in 1..Len(jobs[j].workers) :
      jobs[j].workers[k].pc \in {"probe", "unlock", "annot"} =>
        jobs[j].fileLog[jobs[j].workers[k].idx + 1].lookup # "hit"

\* C7 witness: a handler ended on a cache hit.
C7_Witness ==
  \E j \in Jobs : \E i \in Files(j) :
    /\ jobs[j].fileLog[i].result = "hit"
    /\ jobs[j].progressData[i] = "Completed"

\* The last entry of a non-empty cache.
Newest(cache) == cache[Len(cache)]

\* C8: the cache never holds more than PROCESSED_FILE_CACHE_LIMIT entries, its
\* keys are distinct, and a change of the cache puts one entry last: in place
\* of the old entry of its key, or appended when there is room, or appended
\* with exactly the oldest entry dropped when the cache was full.
C8_BoundedOldestEvicted ==
  /\ [](/\ Len(processedFileCache) <= PROCESSED_FILE_CACHE_LIMIT
        /\ Cardinality(CacheKeys(processedFileCache)) = Len(processedFileCache))
  /\ [][processedFileCache' # processedFileCache =>
          /\ Len(processedFileCache') > 0
          /\ LET e == Newest(processedFileCache') IN
             IF CacheHas(processedFileCache, e.key)
             THEN processedFileCache' = Append(CacheDelete(processedFileCache, e.key), e)
             ELSE IF Len(processedFileCache) < PROCESSED_FILE_CACHE_LIMIT
                  THEN processedFileCache' = Append(processedFileCache, e)
                  ELSE processedFileCache' = Append(Tail(processedFileCache), e)]_vars

\* C8 witness: with a limit of two, the keys 1, 2, 3 were offered in this
\* order and the cache holds 2 and 3: key 1, the oldest, was evicted.
C8_Witness ==
  /\ PROCESSED_FILE_CACHE_LIMIT = 2
  /\ contentsSeen = 3
  /\ Len(processedFileCache) = 2
  /\ processedFileCache[1].key = 2
  /\ processedFileCache[2].key = 3

C10_AnnotatorFailureMarksFailed ==
  \A j \in Jobs : \A i \in Files(j) :
    jobs[j].fileLog[i].result = "empty" =>
      /\ jobs[j].progressData[i] = "Failed"
      /\ \A n \in 1..Len(jobs[j].expenses) : jobs[j].expenses[n].kind # "empty"

\* The files of job j whose handler set the status Completed.
CompletedFiles(j) ==
  {i \in 1..Len(jobs[j].progressData) : jobs[j].progressData[i] = "Completed"}

\* A step in which unlockPdf gave no unlocked file for the file of worker k:
\* the worker leaves the unlock call and does not go on to the annotator.
UnlockFailedStep(j, k) ==
  /\ jobs[j].pc = "batch"
  /\ k <= Len(jobs[j].workers)
  /\ jobs[j].workers[k].pc = "unlock"
  /\ \/ jobs'[j].pc # "batch"
     \/ jobs'[j].workers[k].pc \notin {"unlock", "annot"}

\* C11: a file whose unlock failed (the only way processFile returns null)
\* has status Failed; the step in which the unlock fails sends nothing to the
\* annotator and adds no expense; and the workbook holds exactly the expenses
\* of the Completed files, one row each, its totals row being their sum.
C11_UnlockFailureSkipsFile ==
  /\ [](\A j \in Jobs :
          /\ \A i \in Files(j) :
               jobs[j].fileLog[i].result = "null" => jobs[j].progressData[i] = "Failed"
          /\ jobs[j].pc \in {"excel", "zip"} =>
               /\ Len(jobs[j].worksheet) = 1
               /\ jobs[j].worksheet[1].rows = jobs[j].expenses
               /\ Len(jobs[j].worksheet[1].rows) = Cardinality(CompletedFiles(j))
               /\ \A n \in 1..Len(jobs[j].expenses) : jobs[j].expenses[n].kind # "null"
               /\ jobs[j].worksheet[1].totalPrice = SumAmounts(jobs[j].worksheet[1].rows))
  /\ [][\A j \in Jobs : \A k \in 1..Len(jobs[j].workers) :
          UnlockFailedStep(j, k) =>
            /\ annotCalls' = annotCalls
            /\ jobs'[j].pc = "done" \/ jobs'[j].expenses = jobs[j].expenses]_vars

\* C11 witness: of two files one could not be unlocked and the other was
\* read by the annotator; the workbook has the one row, and its total.
C11_Witness ==
  \E j \in Jobs :
    /\ jobs[j].pc = "zip"
    /\ jobs[j].files = 2
    /\ \E i \in Files(j) : jobs[j].fileLog[i].result = "null"
    /\ \E i \in Files(j) : jobs[j].fileLog[i].result = "record"
    /\ Len(jobs[j].worksheet[1].rows) = 1
    /\ jobs[j].worksheet[1].totalPrice = Amount(jobs[j].worksheet[1].rows[1])
    /\ jobs[j].worksheet[1].totalPrice > 0

\* The timers set by the runner of job j.
TimersBy(j) == {n \in 1..Len(timers) : timers[n].by = j}

\* C12: every job that reached a terminal state, whatever the state, has had
\* the removal of its working folder scheduled with the fixed delay; and a
\* runner schedules nothing but its own folder, with that delay, at its end.
C12_RemovalScheduledAtEveryEnd ==
  /\ \A j \in Jobs :
       Done(j) =>
         \E n \in TimersBy(j) :
           /\ timers[n].folderPath = jobs[j].sessionId
           /\ timers[n].delayMs = RetentionMs
  /\ \A n \in 1..Len(timers) :
       /\ Done(timers[n].by)
       /\ timers[n].folderPath = jobs[timers[n].by].sessionId
       /\ timers[n].delayMs = RetentionMs

\* C12 witness: three jobs ended, one completed, one on the early exit for an
\* empty file set, one on a caught error, and each has its timer.
C12_Witness ==
  \E a, b, c \in Jobs :
    /\ Done(a) /\ jobs[a].snapshot.kind = "completed"
    /\ Done(b) /\ jobs[b].snapshot.kind = "noFiles"
    /\ Done(c) /\ jobs[c].snapshot.kind = "failed"
    /\ TimersBy(a) # {} /\ TimersBy(b) # {} /\ TimersBy(c) # {}

\* The workbook and the archive of job j that are in its folder.
Artifacts(j, F) ==
  {item \in F[jobs[j].sessionId].items : item.by = j /\ item.what \in {"xlsx", "zip"}}

\* C13: the artifacts of a completed job stay in its folder until the timer
\* set at the end of that same job fires: a step that removes any of them is
\* the firing of a timer set by the job's own runner.
C13_ArtifactsKeptUntilOwnTimer ==
  [][\A j \in Jobs :
       (jobs[j].snapshot.kind = "completed" /\ Artifacts(j, folders') # Artifacts(j, folders)) =>
         /\ timersFired' = timersFired + 1
         /\ timers[timersFired + 1].by = j]_vars

\* C14: whatever a job's runner lists in its working folder was put there by
\* that job.
C14_FolderListsOwnFilesOnly ==
  \A j \in Jobs : \A item \in jobs[j].listed : item.by = j

\* A step in which the submit handler leaves job j waiting in its queue.
EnqueuedStep(j) == jobs[j].pc = "none" /\ jobs'[j].pc = "queued"

\* The queue job j was submitted to, after the step.
QueueAfter(j) ==
  IF jobs'[j].kind = "upload" THEN taskQueue' ELSE gmailTaskQueue'

\* C15: a job submitted to a busy queue is announced, in the submit step, with
\* the length of its queue as its position; a job submitted to an idle queue
\* starts at once and gets no position.
C15_PositionIsQueueLength ==
  [][\A j \in Jobs :
       /\ EnqueuedStep(j) =>
            /\ jobs'[j].snapshot.kind = "queued"
            /\ jobs'[j].snapshot.queuePosition = Len(QueueAfter(j))
       /\ (jobs[j].pc = "none" /\ jobs'[j].pc \notin {"none", "queued"}) =>
            jobs'[j].snapshot.kind # "queued"]_vars

RunningOfKind(kind) == {j \in Jobs : jobs[j].kind = kind /\ Running(j)}

\* C16: the two queues are independent.  Each running flag tells whether a
\* job of its own queue runs, a job waits only while a job of its own queue
\* runs, and a step that changes one queue or its flag (a submit, a start, an
\* end) leaves the other queue and the other flag as they were.
C16_QueuesIndependent ==
  /\ [](/\ isProcessing <=> RunningOfKind("upload") # {}
        /\ isGmailProcessing <=> RunningOfKind("gmail") # {}
        /\ taskQueue # <<>> => isProcessing
        /\ gmailTaskQueue # <<>> => isGmailProcessing)
  /\ [][/\ (taskQueue' # taskQueue \/ isProcessing' # isProcessing) =>
             UNCHANGED <<gmailTaskQueue, isGmailProcessing>>
        /\ (gmailTaskQueue' # gmailTaskQueue \/ isGmailProcessing' # isGmailProcessing) =>
             UNCHANGED <<taskQueue, isProcessing>>]_vars

\* C16 witness: an upload job and a Gmail job run at the same time, and a
\* third job waits in one of the queues.
C16_Witness ==
  /\ RunningOfKind("upload") # {}
  /\ RunningOfKind("gmail") # {}
  /\ Len(taskQueue) + Len(gmailTaskQueue) = 1

\* Client c's stream is closed by this step.
DisconnectStep(c) == streams[c].open /\ ~streams'[c].open

C18_NoReplayAfterResubscription ==
  \A c \in Clients : streams[c].open =>
    /\ \A i \in 1..Len(streams[c].received) : streams[c].received[i] > streams[c].since
    /\ jobs[streams[c].emitter].pc # "done" =>
         streams[c].received = Numbers(streams[c].since, jobs[streams[c].emitter].emitted)

\* C18 witness: a client that left a stream mid-job has subscribed again, to
\* an emitter that had published before, and has received a later snapshot.
C18_Witness ==
  \E c \in Clients :
    /\ streams[c].open
    /\ streams[c].resubscribed
    /\ streams[c].since > 0
    /\ Len(streams[c].received) > 0

Written == {mail.written[n] : n \in 1..Len(mail.written)}

\* C19: a message whose sender is on the exclusion list and whose subject
\* holds no exception keyword is skipped and nothing of it is ever written,
\* whatever its parts; with an exception keyword in the subject it is not
\* skipped, and what is written in the end is what the attachment rules give.
C19_ExcludedSenderSkipped ==
  isExcludedSender(mail.sender) =>
    IF containsExceptionKeyword(mail.subject)
    THEN /\ ~mail.skipped
         /\ mail.pc = "done" =>
              Written = {i \in 1..Len(mail.parts) : SavesPart(mail, mail.parts[i])}
    ELSE /\ mail.written = <<>>
         /\ mail.pc # "attachment"
         /\ mail.pc = "done" => mail.skipped

\* C19 witness: a message of an excluded sender without exception keyword has
\* been skipped although the attachment rules would have saved one of its parts.
C19_Witness ==
  /\ mail.pc = "done"
  /\ mail.skipped
  /\ isExcludedSender(mail.sender)
  /\ \E i \in 1..Len(mail.parts) : SavesPart(mail, mail.parts[i])

\* Some file name of the message holds an attachment keyword.
AnyNameMatches ==
  \E i \in 1..Len(mail.parts) :
    HasFilename(mail.parts[i]) /\ attachmentMatchesKeyword(mail.parts[i].filename)

\* The claim's rule for the attachment (a part with a file name) at index i.
RuleSaves(i) ==
  /\ isPdfFile(mail.parts[i].mimeType, mail.parts[i].filename)
  /\ mail.parts[i].attachmentId # ""
  /\ \/ subjectMatchesPositiveKeywords(mail.subject) /\ ~AnyNameMatches
     \/ attachmentMatchesKeyword(mail.parts[i].filename)

\* C20: of a message that is not skipped, an attachment is written if and
\* only if it is a PDF (by content type or by suffix), has an attachment id,
\* and either the subject holds a positive keyword while no file name of the
\* message holds a keyword, or its own file name holds a keyword; each is
\* written at most once, and nothing is written that is no PDF or has no id.
C20_SavedIffRule ==
  /\ \A i \in Written :
       /\ HasFilename(mail.parts[i])
       /\ RuleSaves(i)
       /\ Cardinality({n \in 1..Len(mail.written) : mail.written[n] = i}) = 1
  /\ (mail.pc = "done" /\ ~mail.skipped) =>
       \A i \in 1..Len(mail.parts) :
         (HasFilename(mail.parts[i]) /\ RuleSaves(i)) => i \in Written

\* C20 witness: the subject holds a positive keyword, one PDF with a keyword
\* in its name was written and another PDF with an id was not.
C20_Witness ==
  /\ mail.pc = "done"
  /\ ~mail.skipped
  /\ subjectMatchesPositiveKeywords(mail.subject)
  /\ Written # {}
  /\ \E i \in 1..Len(mail.parts) :
       /\ i \notin Written
       /\ isPdfFile(mail.parts[i].mimeType, mail.parts[i].filename)
       /\ HasFilename(mail.parts[i])
       /\ mail.parts[i].attachmentId # ""

\* ------------------------------------------------------------ C21
\* The first loop of the call under `parsing` has run.
Scanned == parsing.pc \in {"rate", "done"} /\ ~parsing.result.empty

\* The entity carries a foreign marker in its text or a foreign currency code.
HasForeignSign(entity) ==
  IF entity.moneyValue.present THEN entity.moneyValue.currencyCode = "USD"
  ELSE test(usdRegex, toUpperCase(entity.mentionText))

\* C21: text is tested against the foreign (USD) markers first and the local
\* (ILS) markers second, text that matches neither is local currency; so a
\* list of entities without foreign marker and without foreign currency code
\* never triggers conversion.
C21_NoForeignSignNoConversion ==
  (Scanned /\ \A k \in 1..Len(parsing.entities) : ~HasForeignSign(parsing.entities[k]))
    => ~parsing.hasUSD

\* ------------------------------------------------------------ C22
OneHundredTwentyDollars == Entity("Total-Price", <<"$", "1", "2", "0", ".", "0", "0">>)

\* The call under `parsing` has returned a record for a list of entities with
\* a Total-Price of "$120.00" and a Date.
TotalAndDateNormalized ==
  /\ parsing.pc = "done"
  /\ ~parsing.result.empty
  /\ \E k \in 1..Len(parsing.entities) : parsing.entities[k] = OneHundredTwentyDollars
  /\ \E k \in 1..Len(parsing.entities) : parsing.entities[k].type = "Date"

\* C22: for a list of entities with a Total-Price of "$120.00" and a Date, the
\* record has a non-empty OriginalTotalUSD, the total before conversion, a
\* TotalPrice of 120.00 times the exchange rate of the date, and the local
\* currency as Currency.
C22_ForeignTotalKept ==
  TotalAndDateNormalized =>
    /\ parsing.result.OriginalTotalUSD = Num(120000)
    /\ parsing.result.TotalPrice
         = Num(TimesRate(120000, getUsdToIlsExchangeRate(parsing.invoiceDate)))
    /\ parsing.result.Currency = "ILS"

\* ------------------------------------------------------------ C23
\* The text of the first Date entity that has one, <<>> when there is none.
FirstDateText ==
  LET dated == {k \in 1..Len(parsing.entities) :
                  parsing.entities[k].type = "Date" /\ ValueOf(parsing.entities[k]) # <<>>}
  IN IF dated = {} THEN <<>>
     ELSE ValueOf(parsing.entities[CHOOSE k \in dated : \A n \in dated : k <= n])

\* The formats that parse the text, by their place in the declared order.
FormatsParsing(text) ==
  {k \in 1..Len(dateFormats) : parse(text, dateFormats[k]).valid}

TenthOfAprilOrFourthOfOctober == <<"10", "/", "04", "/", "2024">>

\* C23: the invoice date is the text of the Date entity parsed by the first
\* format, in the declared order, that parses it, so "10/04/2024" is taken as
\* MM/dd/yyyy and gives 2024-10-04; when no format parses the text, or there
\* is no Date entity, it is the current date.
C23_FirstFormatThatParses ==
  Scanned =>
    LET fits == FormatsParsing(FirstDateText) IN
    /\ (FirstDateText = <<>> \/ fits = {}) => parsing.result.Date = formatDate(parsing.now)
    /\ (FirstDateText # <<>> /\ fits # {}) =>
         parsing.result.Date
           = formatDate(parse(FirstDateText,
                              dateFormats[CHOOSE k \in fits : \A n \in fits : k <= n]))
    /\ FirstDateText = TenthOfAprilOrFourthOfOctober => parsing.result.Date = <<2024, 10, 4>>

C23_Witness ==
  /\ Scanned
  /\ FirstDateText = TenthOfAprilOrFourthOfOctober
  /\ 3 \in FormatsParsing(FirstDateText)
  /\ parsing.result.Date = <<2024, 10, 4>>

\* ------------------------------------------------------------ C24
NumericColumns == {"PriceWithoutVat", "VAT", "TotalPrice", "OriginalTotalUSD"}

\* The sum of the cells of a column in the first n rows, an empty cell
\* counting as nothing.
RECURSIVE SumOfCells(_, _, _)
SumOfCells(rows, column, n) ==
  IF n = 0 THEN 0 ELSE CellNumber(rows[n][column]) + SumOfCells(rows, column, n - 1)

RowsWritten == excel.pc \in {"write", "written", "failed"}

\* C24: the worksheet has one row for each expense record and then a totals
\* row that holds, for each of the four numeric columns (amount without tax,
\* tax, total, original foreign total), the sum of the column over the rows.
C24_TotalsRowSumsFourColumns ==
  RowsWritten =>
    LET rows == excel.worksheet
        n == Len(excel.expenses)
    IN /\ Len(rows) = n + 1
       /\ \A k \in 1..n : rows[k].FileName = "receipt"
       /\ rows[n + 1].FileName = "Total"
       /\ \A column \in NumericColumns :
            CellNumber(rows[n + 1][column]) = SumOfCells(rows, column, n)

\* The same with the three columns the totals row is given.
ThreeColumnsSummed ==
  RowsWritten =>
    LET rows == excel.worksheet
        n == Len(excel.expenses)
    IN /\ Len(rows) = n + 1
       /\ \A column \in NumericColumns \ {"OriginalTotalUSD"} :
            rows[n + 1][column] = Num(SumOfCells(rows, column, n))

\* ------------------------------------------------------------ C25
\* Some file of job j gave an expense record.
SomeRecord(j) == \E i \in Files(j) : jobs[j].fileLog[i].result = "record"

\* C25: a job whose files yield no expense record ends completed-empty (no
\* expenses extracted), not completed, be it an upload job or a Gmail job: it
\* never gets as far as the workbook and the archive, and when its batch ends
\* without an error its last snapshot says that no expenses were extracted.
C25_NoRecordEndsEmpty ==
  /\ [](\A j \in Jobs : jobs[j].pc \in {"excel", "zip"} => SomeRecord(j))
  /\ [][\A j \in Jobs :
          (/\ jobs[j].pc = "batch"
           /\ ~SomeRecord(j)
           /\ jobs'[j].pc = "done"
           /\ jobs'[j].raised = "none")
            => jobs'[j].snapshot.kind = "noExpenses"]_vars

\* The upload job whose files all gave null never gets to the workbook.
UploadOfNullsBuildsNoWorkbook ==
  \A j \in Jobs :
    (jobs[j].kind = "upload" /\ jobs[j].pc \in {"excel", "zip"})
      => \E i \in Files(j) : jobs[j].fileLog[i].result # "null"

\* ------------------------------------------------------------ C26
\* A step in which job j leaves the writing of its workbook and no workbook
\* has been written.
WriteFailedStep(j) ==
  /\ jobs[j].pc = "excel"
  /\ jobs'[j].pc # "excel"
  /\ folders' = folders

QueueOfKind(kind) == IF kind = "upload" THEN taskQueue ELSE gmailTaskQueue

\* C26: when writing the workbook fails the job ends failed with the error
\* message in its last snapshot, the write is not tried again, no completion
\* is published, the removal of the folder is scheduled all the same, and the
\* scheduler goes on to the next queued job.
C26_WriteFailureEndsJob ==
  /\ [][\A j \in Jobs :
          WriteFailedStep(j) =>
            /\ jobs'[j].pc = "done"
            /\ jobs'[j].snapshot = FailedSnapshot("Failed to save Excel file")
            /\ \E n \in (Len(timers) + 1)..Len(timers') :
                 /\ timers'[n].by = j
                 /\ timers'[n].folderPath = jobs[j].sessionId
                 /\ timers'[n].delayMs = RetentionMs
            /\ \A waiting \in Jobs :
                 (QueueOfKind(jobs[j].kind) # <<>> /\ jobs[waiting].pc = "queued"
                  /\ jobs[waiting].kind = jobs[j].kind
                  /\ \A other \in Jobs :
                       (jobs[other].pc = "queued" /\ jobs[other].kind = jobs[j].kind)
                         => waiting <= other)
                   => jobs'[waiting].pc # "queued"]_vars
  /\ [][\A j \in Jobs :
          (Done(j) /\ jobs[j].snapshot.kind = "failed") =>
            /\ jobs'[j].pc = "done"
            /\ jobs'[j].snapshot = jobs[j].snapshot]_vars

\* C26 witness: a job ended on the failed write, its timer is set, and the
\* job that waited behind it has been started.
C26_Witness ==
  \E j \in Jobs : \E waiting \in Jobs :
    /\ Done(j)
    /\ jobs[j].snapshot = FailedSnapshot("Failed to save Excel file")
    /\ TimersBy(j) # {}
    /\ waiting > j
    /\ jobs[waiting].kind = jobs[j].kind
    /\ Running(waiting)

\* ------------------------------------------------------------ C27
\* File i (counted from 1) of job j has a terminal status.
FileEnded(j, i) ==
  \/ jobs[j].pc \in {"excel", "zip", "done"}
  \/ /\ i <= Len(jobs[j].progressData)
     /\ jobs[j].progressData[i] \in {"Completed", "Failed"}

\* The handler of file i of job j has run to its end: it returned, leaving a
\* terminal status, or it threw into the worker's catch.
HandlerEnded(j, i) ==
  \/ FileEnded(j, i)
  \/ /\ i <= Len(jobs[j].fileLog)
     /\ jobs[j].fileLog[i].result = "threw"

\* File i of job j is with the handler of the first worker, the one whose
\* awaited call may never return.
WithFirstWorker(j, i) ==
  /\ Len(jobs[j].workers) >= 1
  /\ jobs[j].workers[1].pc \in InFlightPcs
  /\ jobs[j].workers[1].idx = i - 1

\* Every file of every running batch has a terminal status, but for the one
\* the first worker holds.
OthersEnded ==
  \A j \in Jobs :
    jobs[j].pc = "batch" =>
      \A i \in 1..jobs[j].files : FileEnded(j, i) \/ WithFirstWorker(j, i)

\* The handler of every file of every running batch has run to its end, but
\* for the one the first worker holds.
OtherHandlersEnded ==
  \A j \in Jobs :
    jobs[j].pc = "batch" =>
      \A i \in 1..jobs[j].files : HandlerEnded(j, i) \/ WithFirstWorker(j, i)

NullNeverCached ==
  \A n \in 1..Len(processedFileCache) : processedFileCache[n].value.kind # "null"

\* ------------------------------------------------------------ C29
\* Job j has been submitted and has not reached a terminal state.
Unfinished(j) == jobs[j].pc \notin {"none", "done"}

\* C29: as long as a job is queued or running a progress channel is registered
\* for it, so that a subscription to it succeeds; no other job's end, no other
\* job's submission and no client's disconnection removes or replaces the
\* channel of a job that has not reached a terminal state.
C29_ChannelRegisteredWhileUnfinished ==
  \A j \in Jobs : Unfinished(j) => progressEmitters[jobs[j].sessionId] = j

\* ------------------------------------------------------------ C30
\* The step of the submit handler for job j, at whose end the response has
\* been sent.
SubmittedStep(j) == jobs[j].pc = "none" /\ jobs'[j].pc # "none"

\* C30: a client that subscribes to the progress stream of a job after it got
\* the submit response receives the job's last snapshot in the end, whatever
\* the job, one without files and one that fails before its first collaborator
\* call included.  A subscriber is sent what is published after it subscribed
\* and nothing else, so when the submit handler is over the job must still be
\* unfinished and its channel registered.
C30_SubscriberAfterResponseGetsLastSnapshot ==
  [][\A j \in Jobs :
       SubmittedStep(j) =>
         /\ jobs'[j].pc # "done"
         /\ progressEmitters'[jobs'[j].sessionId] = j]_vars

\* The same for the jobs that reach their first awaited call.
JobsWithFilesOutliveTheirSubmission ==
  [][\A j \in Jobs :
       (SubmittedStep(j) /\ SERVICE_ACCOUNT_BASE64
        /\ (jobs'[j].kind = "upload" => jobs'[j].files > 0)) =>
         /\ jobs'[j].pc # "done"
         /\ progressEmitters'[jobs'[j].sessionId] = j]_vars

\* ------------------------------------------------------------ C31
\* C31: inside one handler the encryption probe and the unlock (for a PDF)
\* come first, then the content hash of the possibly unlocked file and the
\* cache lookup, then the annotator call on a miss: while the probe or the
\* unlock of a file is pending its content has not been hashed and the cache
\* has not been looked up.
C31_UnlockBeforeHash ==
  \A j \in Jobs : \A k \in 1..Len(jobs[j].workers) :
    jobs[j].workers[k].pc \in {"probe", "unlock"} =>
      jobs[j].fileLog[jobs[j].workers[k].idx + 1].lookup = "none"

\* What the code does keep of the order: the annotator is called after the
\* lookup and after the probe and the unlock.
AnnotatorAfterLookup ==
  \A j \in Jobs : \A k \in 1..Len(jobs[j].workers) :
    jobs[j].workers[k].pc = "annot" =>
      jobs[j].fileLog[jobs[j].workers[k].idx + 1].lookup \in {"miss", "nohash"}

\* ------------------------------------------------------------ C32
\* A step in which the handler of worker k of job j, which missed the cache
\* for its content, stores its result although a handler that ran at the same
\* time has stored one for the same content since.
RacingStoreStep(j, k) ==
  /\ jobs[j].pc = "batch"
  /\ k \in 1..Len(jobs[j].workers)
  /\ jobs[j].workers[k].pc = "annot"
  /\ LET i == jobs[j].workers[k].idx + 1 IN
       /\ jobs[j].fileLog[i].lookup = "miss"
       /\ CacheHas(processedFileCache, jobs[j].fileLog[i].content)
       /\ i <= Len(jobs'[j].fileLog)
       /\ jobs'[j].fileLog[i].result \in {"record", "empty"}

EntriesOf(cache, key) == {n \in 1..Len(cache) : cache[n].key = key}

\* C32: when two handlers for files of the same content run at the same time
\* and both miss the cache, the second call is redundant and nothing else
\* happens: afterwards the cache holds exactly one entry for the content, the
\* capacity bound holds, and no entry of another key is lost (the capacity is
\* not exceeded by a key that is already there).
C32_RaceOnlyRepeatsTheCall ==
  [][\A j \in Jobs : \A k \in 1..MaxW :
       RacingStoreStep(j, k) =>
         LET c == jobs[j].fileLog[jobs[j].workers[k].idx + 1].content IN
         /\ Cardinality(EntriesOf(processedFileCache', c)) = 1
         /\ Len(processedFileCache') <= PROCESSED_FILE_CACHE_LIMIT
         /\ Len(processedFileCache') = Len(processedFileCache)
         /\ CacheDelete(processedFileCache', c) = CacheDelete(processedFileCache, c)
         /\ annotCalls' = annotCalls]_vars

\* C32 witness: two handlers of one batch missed the cache for the same
\* content; the first has stored its record, the second is still waiting for
\* the annotator and will store its own.
C32_Witness ==
  \E j \in Jobs :
    /\ jobs[j].pc = "batch"
    /\ Len(jobs[j].workers) = 2
    /\ jobs[j].workers[2].pc = "annot"
    /\ jobs[j].fileLog[2].lookup = "miss"
    /\ jobs[j].fileLog[1].result = "record"
    /\ jobs[j].fileLog[1].content = jobs[j].fileLog[2].content
    /\ processedFileCache
         = <<[key |-> jobs[j].fileLog[1].content,
              value |-> ExpenseRecord(0, jobs[j].fileLog[1].content)]>>

\* ------------------------------------------------------------ C33
\* A step in which the handler of worker k of job j finds its content in the
\* cache.
HitStep(j, k) ==
  /\ jobs[j].pc = "batch"
  /\ k \in 1..Len(jobs[j].workers)
  /\ jobs[j].workers[k].pc = "hash"
  /\ LET i == jobs[j].workers[k].idx + 1 IN
       /\ i <= Len(jobs'[j].fileLog)
       /\ jobs'[j].fileLog[i].result = "hit"

TerminalStatuses == {"Completed", "Failed"}

\* The workers of job j that have not left their loop.
Working(j) == {k \in 1..Len(jobs[j].workers) : jobs[j].workers[k].pc # "exit"}

\* A step in which job j publishes the snapshot with the download links: the
\* snapshot carries the file records as they are before the step.
CompletionStep(j) ==
  /\ jobs[j].pc = "zip"
  /\ jobs'[j].pc = "done"
  /\ jobs'[j].snapshot.kind = "completed"

\* A step in which job j publishes the snapshot of the empty result: it is the
\* step of the last handler to return.
EmptyResultStep(j) ==
  /\ jobs[j].pc = "batch"
  /\ jobs'[j].pc = "done"
  /\ jobs'[j].snapshot.kind = "noExpenses"

FinalSnapshotAfterJoin ==
  [][\A j \in Jobs :
       /\ CompletionStep(j) => (jobs[j].joined /\ Working(j) = {})
       /\ EmptyResultStep(j) => Cardinality(Working(j)) = 1]_vars

\* ------------------------------------------------------------ C35
FlagOfKind(kind) == IF kind = "upload" THEN isProcessing ELSE isGmailProcessing

\* A step in which the running job j ends while nothing waits in its queue.
LastJobEndsStep(j) ==
  /\ Running(j)
  /\ jobs'[j].pc = "done"
  /\ QueueOfKind(jobs[j].kind) = <<>>

\* C35: between handler executions, for each queue, the running flag is set
\* if and only if a job of that queue is executing, a non-empty queue implies
\* that the flag is set, and when the last job ends with the queue empty the
\* flag is cleared.
C35_FlagTracksRunningJob ==
  /\ [](\A kind \in {"upload", "gmail"} :
          /\ FlagOfKind(kind) <=> (\E j \in Jobs : jobs[j].kind = kind /\ Running(j))
          /\ Len(QueueOfKind(kind)) > 0 => FlagOfKind(kind))
  /\ [][\A j \in Jobs :
          LastJobEndsStep(j) =>
            IF jobs[j].kind = "upload" THEN ~isProcessing' ELSE ~isGmailProcessing']_vars

\* C35 witness: the only job of one queue has ended and the flag of that queue
\* is cleared, while in the other queue a job waits behind a running one.
C35_Witness ==
  \E kind \in {"upload", "gmail"} :
    /\ ~FlagOfKind(kind)
    /\ \E j \in Jobs : jobs[j].kind = kind /\ Done(j)
    /\ \E other \in {"upload", "gmail"} \ {kind} :
         /\ FlagOfKind(other)
         /\ Len(QueueOfKind(other)) > 0

\* ------------------------------------------------------------ C36
\* The snapshots that end a job: completed, completed-empty (no expenses
\* extracted, no files) and failed.
TerminalSnapshots == {"completed", "noExpenses", "noFiles", "failed"}

\* C36: every job publishes exactly one terminal snapshot on every execution
\* path and no snapshot after it: while the job runs its last snapshot is not
\* a terminal one, the segment in which the runner returns publishes one
\* terminal snapshot as its last, and once the runner has returned the job
\* publishes nothing more.
C36_OneTerminalSnapshot ==
  /\ [](\A j \in Jobs :
          /\ ~Done(j) => jobs[j].snapshot.kind \notin TerminalSnapshots
          /\ Done(j) => jobs[j].snapshot.kind \in TerminalSnapshots)
  /\ [][\A j \in Jobs :
          /\ (~Done(j) /\ jobs'[j].pc = "done") =>
               /\ jobs'[j].snapshot.kind \in TerminalSnapshots
               /\ jobs'[j].snapshot # jobs[j].snapshot
          /\ Done(j) => jobs'[j] = jobs[j]]_vars

\* C36 witness: one job has ended completed and another has ended failed.
C36_Witness ==
  \E a, b \in Jobs :
    /\ Done(a) /\ jobs[a].snapshot.kind = "completed"
    /\ Done(b) /\ jobs[b].snapshot.kind = "failed"

\* ------------------------------------------------------------ C37
\* A step in which the handler of file i of job j (index i - 1) returns with
\* an expense record, which it pushes to the job's results.
RecordAttributedStep(j, i) ==
  /\ jobs[j].pc = "batch"
  /\ i \in Files(j)
  /\ jobs[j].fileLog[i].result = "none"
  /\ \E k \in 1..Len(jobs[j].workers) :
       jobs[j].workers[k].pc \in InFlightPcs /\ jobs[j].workers[k].idx + 1 = i
  /\ i <= Len(jobs'[j].fileLog)
  /\ jobs'[j].fileLog[i].result \in {"hit", "record"}
  /\ Len(jobs'[j].expenses) = Len(jobs[j].expenses) + 1
  /\ jobs'[j].expenses[Len(jobs'[j].expenses)].kind = "record"

FreshRecordCarriesOwnFileName ==
  [][\A j \in Jobs : \A i \in 1..MaxStallFiles :
       (RecordAttributedStep(j, i) /\ jobs'[j].fileLog[i].result = "record") =>
         jobs'[j].expenses[Len(jobs'[j].expenses)].FileName = i - 1]_vars

\* ------------------------------------------------------------ C38
\* The parts of the message that are PDF attachments with an attachment id.
FetchablePdfs ==
  {i \in 1..Len(mail.parts) :
     /\ HasFilename(mail.parts[i])
     /\ mail.parts[i].attachmentId # ""
     /\ isPdfFile(mail.parts[i].mimeType, mail.parts[i].filename)}

\* C38: of a message that is not skipped, whose subject holds a positive
\* keyword and that has at least one PDF attachment with an attachment id, at
\* least one attachment is saved, whatever other attachments it carries.
C38_PositiveSubjectSavesSomePdf ==
  (/\ mail.pc = "done"
   /\ ~mail.skipped
   /\ subjectMatchesPositiveKeywords(mail.subject)
   /\ FetchablePdfs # {})
    => Written # {}

\* It holds for the messages none of whose file names holds a keyword, and for
\* those where a PDF with an id holds one in its own name.
PositiveSubjectSavesPdfUnlessOtherNameMatches ==
  (/\ mail.pc = "done"
   /\ ~mail.skipped
   /\ subjectMatchesPositiveKeywords(mail.subject)
   /\ FetchablePdfs # {}
   /\ \/ ~AnyNameMatches
      \/ \E i \in FetchablePdfs : attachmentMatchesKeyword(mail.parts[i].filename))
    => Written # {}

\* ------------------------------------------------------------ C39
\* C39: the exchange-rate cache is bounded in size: after any sequence of
\* normalizations, whatever the number of distinct invoice dates, it never
\* holds more than a fixed number of entries (here MaxRateEntries).
C39_RateCacheBounded == Len(exchangeRateCache) <= MaxRateEntries

\* No step removes an entry from the cache of rates: each invoice date with a
\* foreign total that is not in the cache adds one entry.
RateCacheNeverShrinks ==
  [][/\ Len(exchangeRateCache') >= Len(exchangeRateCache)
     /\ \A n \in 1..Len(exchangeRateCache) :
          exchangeRateCache'[n].date = exchangeRateCache[n].date]_vars

\* ------------------------------------------------------------ C40
\* The input files of job j, as an item of its folder.
OwnInputs(j) == IF jobs[j].inputs > 0 THEN {Item(j, "input")} ELSE {}

\* C40: the archive built for a job contains exactly that job's input files,
\* and never a workbook or an archive, neither its own nor an earlier job's.
C40_ArchiveHoldsOwnInputsOnly ==
  \A j \in Jobs :
    jobs[j].pc = "zip" =>
      /\ ArchivedItems(j) = OwnInputs(j)
      /\ \A item \in ArchivedItems(j) : item.what = "input"

\* The archive of an upload job holds exactly the files of its request, and
\* every archive holds all input files of its job.
UploadArchiveHoldsOwnInputs ==
  \A j \in Jobs :
    jobs[j].pc = "zip" =>
      /\ OwnInputs(j) \subseteq ArchivedItems(j)
      /\ jobs[j].kind = "upload" => ArchivedItems(j) = OwnInputs(j)

====
